---- MODULE Spec2Model ----
(***************************************************************************)
(* Selection state machine of src/slic3r/GUI/Selection.cpp: the set of     *)
(* selected volume indices, the selection mode, the derived selection      *)
(* type, and the mutators that keep them consistent with the volume list.  *)
(*                                                                         *)
(* Indices are those of the source: volumes, objects, instances and parts  *)
(* are numbered from 0.  The volume list follows the order in which the    *)
(* scene is loaded: object by object, part by part, instance by instance,  *)
(* the wipe tower (when there is one) last.                                *)
(***************************************************************************)
EXTENDS Integers, FiniteSets, Sequences, TLC

(***************************************************************************)
(* Bounds of the scenes the selection is bound to.                         *)
(***************************************************************************)
MaxParts == 3
MaxInstances == 2
MaxVolumes == 6
\* the number of calls of the transform operations in a behaviour
MaxTransforms == 3
\* the number of volumes of the scenes the rotations are made in
MaxDragVolumes == 4

\* the distance of the instances and of the parts of a scene, and the unit of displacements
GridStep == 4 * MaxInstances

\* object index at and above which a volume is not part of the model (the wipe tower)
SentinelObjectIdx == 1000

VARIABLES
    m_volumes,        \* GLVolumePtrs: index -> identity of the volume
    m_model,          \* Model::objects: object index -> part and instance counts
    selected,         \* GLVolume::selected, by volume index
    disabled,         \* GLVolume::disabled, by volume index
    m_valid,          \* bound to a volume list and a model
    m_list,           \* IndicesList (std::set<unsigned int>)
    m_mode,           \* EMode: "Volume" | "Instance"
    m_type,           \* EType
    m_cache_content,  \* m_cache.content: object index -> set of instance indices
    m_bounding_box_dirty,
    m_bounding_box,   \* the box get_bounding_box() computed last
    transformation,   \* GLVolume: volume and instance transformation, by volume index
    m_cache_volumes_data,     \* m_cache.volumes_data: the transformations start_dragging saw
    m_cache_dragging_center,  \* m_cache.dragging_center
    requests,         \* the deletion requests that erase() handed to the object list
    transforms,       \* the number of calls of the transform operations made so far
    reloaded,         \* the map of a reload of the scene that volumes_changed has yet to be told of
    call,             \* the observed call: the mutator and its arguments
    pre               \* m_list, m_mode, m_type as they were when the observed call was made

vars == <<m_volumes, m_model, selected, disabled, m_valid, m_list, m_mode, m_type,
          m_cache_content, m_bounding_box_dirty, m_bounding_box, transformation,
          m_cache_volumes_data, m_cache_dragging_center, requests, transforms, reloaded, call, pre>>

sceneVars == <<m_volumes, m_model, m_valid>>

Modes == {"Volume", "Instance"}
Types == {"Invalid", "Empty", "WipeTower", "SingleModifier", "MultipleModifier",
          "SingleVolume", "MultipleVolume", "SingleFullObject", "MultipleFullObject",
          "SingleFullInstance", "MultipleFullInstance", "Mixed"}

(***************************************************************************)
(* Scenes.  An object of the model has `volumes` parts and `instances`     *)
(* instances; each (part, instance) pair is one volume of the list.  The   *)
(* last `modifiers` parts of an object are modifiers: none, one or two,    *)
(* and never all of them (the first part of an object is a model part).    *)
(***************************************************************************)
ObjectShapes ==
    { sh \in [volumes : 1..MaxParts, instances : 1..MaxInstances, modifiers : 0..2] :
        sh.modifiers < sh.volumes }

\* a model part and a modifier, in one instance
PartWithModifier == [volumes |-> 2, instances |-> 1, modifiers |-> 1]

ModelPartVolumes(o, sh) ==
    [k \in 1..(sh.volumes * sh.instances) |->
        [object_idx    |-> o,
         volume_idx    |-> (k - 1) \div sh.instances,
         instance_idx  |-> (k - 1) % sh.instances,
         is_modifier   |-> (k - 1) \div sh.instances >= sh.volumes - sh.modifiers,
         is_wipe_tower |-> FALSE]]

\* the auxiliary volume (an SLA support) of each instance of an object that has them:
\* a volume of no part of the model, of negative volume_idx
AuxiliaryVolumes(o, sh) ==
    [k \in 1..sh.instances |->
        [object_idx    |-> o,
         volume_idx    |-> -1,
         instance_idx  |-> k - 1,
         is_modifier   |-> FALSE,
         is_wipe_tower |-> FALSE]]

ObjectVolumes(o, sh) ==
    ModelPartVolumes(o, sh) \o (IF "aux" \in DOMAIN sh THEN AuxiliaryVolumes(o, sh) ELSE <<>>)

WipeTowerVolume ==
    [object_idx |-> SentinelObjectIdx, volume_idx |-> 0, instance_idx |-> 0,
     is_modifier |-> FALSE, is_wipe_tower |-> TRUE]

RECURSIVE AllObjectVolumes(_, _)
AllObjectVolumes(objs, o) ==
    IF o > Len(objs) THEN <<>>
    ELSE ObjectVolumes(o - 1, objs[o]) \o AllObjectVolumes(objs, o + 1)

SceneVolumes(objs, wt) ==
    LET s == AllObjectVolumes(objs, 1) \o (IF wt THEN <<WipeTowerVolume>> ELSE <<>>)
    IN  [i \in 0..(Len(s) - 1) |-> s[i + 1]]

SceneModel(objs) ==
    [o \in 0..(Len(objs) - 1) |-> [volumes |-> objs[o + 1].volumes, instances |-> objs[o + 1].instances]]

\* a scene: an object of any shape, with or without a second object that is a part with
\* its modifier, with or without the wipe tower, of at most MaxVolumes volumes in all
Scenes ==
    { sc \in [objs : {<<a>> : a \in ObjectShapes} \cup {<<a, PartWithModifier>> : a \in ObjectShapes},
              wt : BOOLEAN] :
        Cardinality(DOMAIN SceneVolumes(sc.objs, sc.wt)) <= MaxVolumes }

(***************************************************************************)
(* Vectors and transformations.  Lengths are whole numbers and angles are  *)
(* whole numbers of quarter turns, so that rotation matrices are signed    *)
(* permutation matrices and every operation of the transform operations is *)
(* exact.  Geometry::Transformation, assemble_transform and                *)
(* extract_euler_angles are those of libslic3r: a transformation is        *)
(* offset * rotation * scaling * mirror, and a rotation of Euler angles    *)
(* (x, y, z) is Rz * Ry * Rx.                                              *)
(***************************************************************************)
Zero3 == <<0, 0, 0>>
Ones3 == <<1, 1, 1>>
VAdd(a, b) == <<a[1] + b[1], a[2] + b[2], a[3] + b[3]>>
VSub(a, b) == <<a[1] - b[1], a[2] - b[2], a[3] - b[3]>>
VMul(a, b) == <<a[1] * b[1], a[2] * b[2], a[3] * b[3]>>
Abs(n) == IF n < 0 THEN -n ELSE n

Identity3 == <<<<1, 0, 0>>, <<0, 1, 0>>, <<0, 0, 1>>>>
MatMul(A, B) ==
    [r \in 1..3 |-> [c \in 1..3 |-> A[r][1] * B[1][c] + A[r][2] * B[2][c] + A[r][3] * B[3][c]]]
MatVec(A, v) == [r \in 1..3 |-> A[r][1] * v[1] + A[r][2] * v[2] + A[r][3] * v[3]]
Transpose(A) == [r \in 1..3 |-> [c \in 1..3 |-> A[c][r]]]
Diagonal(v) == [r \in 1..3 |-> [c \in 1..3 |-> IF r = c THEN v[r] ELSE 0]]

\* cosine and sine of a whole number of quarter turns
Cos4(k) == CASE k % 4 = 0 -> 1 [] k % 4 = 2 -> -1 [] OTHER -> 0
Sin4(k) == CASE k % 4 = 1 -> 1 [] k % 4 = 3 -> -1 [] OTHER -> 0
\* atan2(y, x), in quarter turns, of a point of an axis
Atan2(y, x) == IF y > 0 THEN 1 ELSE IF y < 0 THEN -1 ELSE IF x < 0 THEN 2 ELSE 0

RotationX(k) == <<<<1, 0, 0>>, <<0, Cos4(k), -Sin4(k)>>, <<0, Sin4(k), Cos4(k)>>>>
RotationY(k) == <<<<Cos4(k), 0, Sin4(k)>>, <<0, 1, 0>>, <<-Sin4(k), 0, Cos4(k)>>>>
RotationZ(k) == <<<<Cos4(k), -Sin4(k), 0>>, <<Sin4(k), Cos4(k), 0>>, <<0, 0, 1>>>>

\* the rotation block of Geometry::assemble_transform(Vec3d::Zero(), rotation)
rotation_matrix(rotation) ==
    MatMul(RotationZ(rotation[3]), MatMul(RotationY(rotation[2]), RotationX(rotation[1])))

\* Geometry::extract_euler_angles of a rotation matrix
extract_euler_angles(m) ==
    IF m[3][1] = -1 THEN <<Atan2(m[1][2], m[1][3]), 1, 0>>
    ELSE IF m[3][1] = 1 THEN <<Atan2(-m[1][2], -m[1][3]), -1, 0>>
    ELSE <<Atan2(m[3][2], m[3][3]), 0, Atan2(m[2][1], m[1][1])>>

\* BoundingBoxf3(): not defined, min and max at the origin
EmptyBox == [defined |-> FALSE, min |-> Zero3, max |-> Zero3]

\* Geometry::Transformation: offset, rotation, scaling factor and mirror
DefaultTransformation ==
    [offset |-> Zero3, rotation |-> Zero3, scaling_factor |-> Ones3, mirror |-> Ones3]

\* the matrix of rotation * scaling * mirror of a transformation, and its inverse
LinearPart(t) ==
    MatMul(rotation_matrix(t.rotation), MatMul(Diagonal(t.scaling_factor), Diagonal(t.mirror)))

\* the inverse of LinearPart(t) applied to v: exact when the scaling factors divide
InverseLinearPart(t, v) ==
    LET w == MatVec(Transpose(rotation_matrix(t.rotation)), v)
    IN  <<(w[1] \div t.scaling_factor[1]) * t.mirror[1],
          (w[2] \div t.scaling_factor[2]) * t.mirror[2],
          (w[3] \div t.scaling_factor[3]) * t.mirror[3]>>

\* the transformations a volume of the scene is created with: the instances of an object
\* are apart and turned about Z against each other, the parts of an object are stacked
SceneTransformation(v) ==
    [instance |-> [DefaultTransformation EXCEPT
                      !.offset = <<GridStep * v.instance_idx, GridStep * (v.object_idx % SentinelObjectIdx), 0>>,
                      !.rotation = <<0, 0, v.instance_idx>>],
     volume   |-> [DefaultTransformation EXCEPT !.offset = <<0, 0, GridStep * v.volume_idx>>]]

\* the convex hull of a volume is a cube from the origin of the volume to this corner
HullCorner == <<2, 2, 2>>

\* the world position of a point of a volume
WorldPoint(t, p) ==
    VAdd(t.instance.offset,
         MatVec(LinearPart(t.instance), VAdd(t.volume.offset, MatVec(LinearPart(t.volume), p))))

NumVolumes == Cardinality(DOMAIN m_volumes)
NumObjects == Cardinality(DOMAIN m_model)

(***************************************************************************)
(* The selection as the mutators see and change it.                        *)
(***************************************************************************)
\* oob: the outcome, during the call, of a comparison that reads m_model->objects past its end
Cur(oob) ==
    [list |-> m_list, selected |-> selected, disabled |-> disabled, mode |-> m_mode,
     type |-> m_type, content |-> m_cache_content, dirty |-> m_bounding_box_dirty,
     bounding_box |-> m_bounding_box, transformation |-> transformation,
     volumes_data |-> m_cache_volumes_data, dragging_center |-> m_cache_dragging_center,
     requests |-> requests, oob |-> oob]

\* Selection.hpp (inline predicates over m_type and m_list)
is_empty(S) == S.type = "Empty"
is_wipe_tower(S) == S.type = "WipeTower"
is_modifier(S) == S.type \in {"SingleModifier", "MultipleModifier"}
contains_volume(S, volume_idx) == volume_idx \in S.list

get_object_idx(S) ==
    IF Cardinality(DOMAIN S.content) = 1 THEN CHOOSE o \in DOMAIN S.content : TRUE ELSE -1

get_instance_idx(S) ==
    IF Cardinality(DOMAIN S.content) = 1
    THEN LET idxs == S.content[CHOOSE o \in DOMAIN S.content : TRUE]
         IN  IF Cardinality(idxs) = 1 THEN CHOOSE i \in idxs : TRUE ELSE -1
    ELSE -1


(***************************************************************************)
(* Selection::_update_type: rebuilds m_cache.content from m_list, derives  *)
(* the type, forces Instance mode for the full-object and full-instance    *)
(* types, and sets the disabled flag of every volume.                      *)
(* m_model->objects[idx] is an unchecked vector access.  With the wipe      *)
(* tower selected beside volumes of the model, the loop over the touched   *)
(* objects reads past the end of the vector for the sentinel object index: *)
(* the counts read there are arbitrary, and so is the outcome of the       *)
(* comparison of their total with the size of the selection (S.oob).       *)
(***************************************************************************)
CacheContent(list) ==
    [o \in {m_volumes[i].object_idx : i \in list} |->
        {m_volumes[i].instance_idx : i \in {j \in list : m_volumes[j].object_idx = o}}]

RECURSIVE sels_cntr(_)
sels_cntr(objs) ==
    IF objs = {} THEN 0
    ELSE LET o == CHOOSE x \in objs : TRUE
         IN  m_model[o].volumes * m_model[o].instances + sels_cntr(objs \ {o})

\* variant: a single modifier does not disable the volumes of the other instances
TypeOfSingle_modifier_disables_nothing(first) ==
    IF first.is_wipe_tower THEN <<"WipeTower", FALSE, FALSE>>
    ELSE IF first.is_modifier THEN <<"SingleModifier", FALSE, FALSE>>
    ELSE LET volumes_count == m_model[first.object_idx].volumes
             instances_count == m_model[first.object_idx].instances
         IN  IF volumes_count * instances_count = 1 THEN <<"SingleFullObject", TRUE, FALSE>>
             ELSE IF volumes_count = 1 THEN <<"SingleFullInstance", TRUE, FALSE>>
             ELSE <<"SingleVolume", FALSE, TRUE>>

\* <<type, mode forced to Instance, requires_disable>> of a selection of one volume
TypeOfSingle(first) ==
    IF first.is_wipe_tower THEN <<"WipeTower", FALSE, FALSE>>
    ELSE IF first.is_modifier THEN <<"SingleModifier", FALSE, TRUE>>
    ELSE LET volumes_count == m_model[first.object_idx].volumes
             instances_count == m_model[first.object_idx].instances
         IN  IF volumes_count * instances_count = 1 THEN <<"SingleFullObject", TRUE, FALSE>>
             ELSE IF volumes_count = 1 THEN <<"SingleFullInstance", TRUE, FALSE>>
             ELSE <<"SingleVolume", FALSE, TRUE>>

\* variant: a single selected instance is never recognised as a full instance
TypeOfSingleObject_no_full_instance(S, content) ==
    LET obj == CHOOSE o \in DOMAIN content : TRUE
        volumes_count == m_model[obj].volumes + Cardinality({i \in S.list : m_volumes[i].volume_idx < 0})
        size == Cardinality(S.list)
        modifiers_count == Cardinality({i \in S.list : m_volumes[i].is_modifier})
    IN  IF volumes_count * m_model[obj].instances = size THEN <<"SingleFullObject", TRUE, FALSE>>
        ELSE IF Cardinality(content[obj]) = 1
             THEN IF modifiers_count = 0 THEN <<"MultipleVolume", FALSE, TRUE>>
                  ELSE IF modifiers_count = size THEN <<"MultipleModifier", FALSE, TRUE>>
                  ELSE <<"Mixed", FALSE, FALSE>>
        ELSE IF Cardinality(content[obj]) * volumes_count = size
             THEN <<"MultipleFullInstance", TRUE, FALSE>>
        ELSE <<"Mixed", FALSE, FALSE>>

\* variant: the test for the full object is left out
TypeOfSingleObject_no_full_object(S, content) ==
    LET obj == CHOOSE o \in DOMAIN content : TRUE
        volumes_count == m_model[obj].volumes + Cardinality({i \in S.list : m_volumes[i].volume_idx < 0})
        size == Cardinality(S.list)
        modifiers_count == Cardinality({i \in S.list : m_volumes[i].is_modifier})
    IN  IF Cardinality(content[obj]) = 1
        THEN IF volumes_count = size THEN <<"SingleFullInstance", TRUE, FALSE>>
             ELSE IF modifiers_count = 0 THEN <<"MultipleVolume", FALSE, TRUE>>
             ELSE IF modifiers_count = size THEN <<"MultipleModifier", FALSE, TRUE>>
             ELSE <<"Mixed", FALSE, FALSE>>
        ELSE IF Cardinality(content[obj]) * volumes_count = size
             THEN <<"MultipleFullInstance", TRUE, FALSE>>
        ELSE <<"Mixed", FALSE, FALSE>>

\* variant: the full object of several volumes is recognised and the mode is left alone
TypeOfSingleObject_mode_kept(S, content) ==
    LET obj == CHOOSE o \in DOMAIN content : TRUE
        volumes_count == m_model[obj].volumes + Cardinality({i \in S.list : m_volumes[i].volume_idx < 0})
        size == Cardinality(S.list)
        modifiers_count == Cardinality({i \in S.list : m_volumes[i].is_modifier})
    IN  IF volumes_count * m_model[obj].instances = size THEN <<"SingleFullObject", FALSE, FALSE>>
        ELSE IF Cardinality(content[obj]) = 1
             THEN IF volumes_count = size THEN <<"SingleFullInstance", TRUE, FALSE>>
                  ELSE IF modifiers_count = 0 THEN <<"MultipleVolume", FALSE, TRUE>>
                  ELSE IF modifiers_count = size THEN <<"MultipleModifier", FALSE, TRUE>>
                  ELSE <<"Mixed", FALSE, FALSE>>
        ELSE IF Cardinality(content[obj]) * volumes_count = size
             THEN <<"MultipleFullInstance", TRUE, FALSE>>
        ELSE <<"Mixed", FALSE, FALSE>>

\* the same for a selection of several volumes of one object
TypeOfSingleObject(S, content) ==
    LET list == S.list
        obj == CHOOSE o \in DOMAIN content : TRUE
        model_volumes_count == m_model[obj].volumes
        sla_volumes_count == Cardinality({i \in list : m_volumes[i].volume_idx < 0})
        volumes_count == model_volumes_count + sla_volumes_count
        instances_count == m_model[obj].instances
        selected_instances_count == Cardinality(content[obj])
        size == Cardinality(list)
        modifiers_count == Cardinality({i \in list : m_volumes[i].is_modifier})
    IN  IF volumes_count * instances_count = size THEN <<"SingleFullObject", TRUE, FALSE>>
        ELSE IF selected_instances_count = 1
             THEN IF volumes_count = size THEN <<"SingleFullInstance", TRUE, FALSE>>
                  ELSE IF modifiers_count = 0 THEN <<"MultipleVolume", FALSE, TRUE>>
                  ELSE IF modifiers_count = size THEN <<"MultipleModifier", FALSE, TRUE>>
                  ELSE <<"Mixed", FALSE, FALSE>>
        ELSE IF selected_instances_count > 1 /\ selected_instances_count * volumes_count = size
             THEN <<"MultipleFullInstance", TRUE, FALSE>>
        ELSE <<"Mixed", FALSE, FALSE>>

\* the same for a selection that touches several objects
TypeOfMultipleObjects(S, content) ==
    IF (IF DOMAIN content \subseteq DOMAIN m_model
        THEN sels_cntr(DOMAIN content) = Cardinality(S.list)
        ELSE S.oob)
    THEN <<"MultipleFullObject", TRUE, FALSE>>
    ELSE <<"Mixed", FALSE, FALSE>>

_update_type(S) ==
    LET content == CacheContent(S.list)
        t == IF ~m_valid THEN <<"Invalid", FALSE, FALSE>>
             ELSE IF S.list = {} THEN <<"Empty", FALSE, FALSE>>
             ELSE IF Cardinality(S.list) = 1
                  THEN TypeOfSingle(m_volumes[CHOOSE i \in S.list : TRUE])
             ELSE IF Cardinality(DOMAIN content) = 1
                  THEN TypeOfSingleObject(S, content)
             ELSE TypeOfMultipleObjects(S, content)
        T == [S EXCEPT !.content = content, !.type = t[1],
                       !.mode = IF t[2] THEN "Instance" ELSE @]
        object_idx == get_object_idx(T)
        instance_idx == get_instance_idx(T)
    IN  [T EXCEPT !.disabled =
            [i \in DOMAIN m_volumes |->
                IF t[3] THEN m_volumes[i].object_idx # object_idx \/ m_volumes[i].instance_idx # instance_idx
                ELSE FALSE]]

(***************************************************************************)
(* The private helpers that change m_list and the selected flags.          *)
(***************************************************************************)
\* variant: the index is inserted and the flag of the volume is left as it was
_add_volume_list_only(S, volume_idx) ==
    [S EXCEPT !.list = @ \cup {volume_idx}]

_add_volume(S, volume_idx) ==
    [S EXCEPT !.list = @ \cup {volume_idx}, !.selected[volume_idx] = TRUE]

_remove_volume(S, volume_idx) ==
    IF volume_idx \notin S.list THEN S
    ELSE [S EXCEPT !.list = @ \ {volume_idx}, !.selected[volume_idx] = FALSE]

RECURSIVE _add_instance_from(_, _, _, _)
_add_instance_from(S, object_idx, instance_idx, i) ==
    IF i >= NumVolumes THEN S
    ELSE _add_instance_from(
            IF m_volumes[i].object_idx = object_idx /\ m_volumes[i].instance_idx = instance_idx
            THEN _add_volume(S, i) ELSE S,
            object_idx, instance_idx, i + 1)

\* variant: the object index is not compared
RECURSIVE _add_instance_any_object_from(_, _, _)
_add_instance_any_object_from(S, instance_idx, i) ==
    IF i >= NumVolumes THEN S
    ELSE _add_instance_any_object_from(
            IF m_volumes[i].instance_idx = instance_idx THEN _add_volume(S, i) ELSE S,
            instance_idx, i + 1)

_add_instance_any_object(S, object_idx, instance_idx) ==
    _add_instance_any_object_from(S, instance_idx, 0)

_add_instance(S, object_idx, instance_idx) == _add_instance_from(S, object_idx, instance_idx, 0)

RECURSIVE _add_object_from(_, _, _)
_add_object_from(S, object_idx, i) ==
    IF i >= NumVolumes THEN S
    ELSE _add_object_from(
            IF m_volumes[i].object_idx = object_idx THEN _add_volume(S, i) ELSE S,
            object_idx, i + 1)

_add_object(S, object_idx) == _add_object_from(S, object_idx, 0)

RECURSIVE _remove_object_from(_, _, _)
_remove_object_from(S, object_idx, i) ==
    IF i >= NumVolumes THEN S
    ELSE _remove_object_from(
            IF m_volumes[i].object_idx = object_idx THEN _remove_volume(S, i) ELSE S,
            object_idx, i + 1)


RECURSIVE _remove_instance_from(_, _, _, _)
_remove_instance_from(S, object_idx, instance_idx, i) ==
    IF i >= NumVolumes THEN S
    ELSE _remove_instance_from(
            IF m_volumes[i].object_idx = object_idx /\ m_volumes[i].instance_idx = instance_idx
            THEN _remove_volume(S, i) ELSE S,
            object_idx, instance_idx, i + 1)

_remove_object(S, object_idx) == _remove_object_from(S, object_idx, 0)

\* variant: every instance of the object is removed
_remove_instance_whole_object(S, object_idx, instance_idx) == _remove_object(S, object_idx)

_remove_instance(S, object_idx, instance_idx) == _remove_instance_from(S, object_idx, instance_idx, 0)


(***************************************************************************)
(* The public mutators, as functions of the selection.                     *)
(***************************************************************************)
RECURSIVE clear_flags(_, _)
clear_flags(S, todo) ==
    IF todo = {} THEN S
    ELSE LET i == CHOOSE x \in todo : \A y \in todo : x <= y
         IN  clear_flags([S EXCEPT !.selected[i] = FALSE], todo \ {i})

\* variant: the flags are reset, the list is kept
clear_flags_only(S) ==
    IF ~m_valid THEN S
    ELSE [_update_type(clear_flags(S, S.list)) EXCEPT !.dirty = TRUE]

clear(S) ==
    IF ~m_valid THEN S
    ELSE [_update_type([clear_flags(S, S.list) EXCEPT !.list = {}]) EXCEPT !.dirty = TRUE]

\* variant: the wipe tower does not reset the list
needs_reset_but_for_wipe_tower(S, volume, as_single_selection) ==
    \/ as_single_selection
    \/ ~is_modifier(S) /\ volume.is_modifier
    \/ is_modifier(S) /\ ~volume.is_modifier

\* variant: a change of kind, modifier or not, does not reset the list
needs_reset_but_for_kind(S, volume, as_single_selection) ==
    \/ as_single_selection
    \/ volume.is_wipe_tower
    \/ is_wipe_tower(S) /\ ~volume.is_wipe_tower

\* "resets the current list if needed"
needs_reset(S, volume, as_single_selection) ==
    \/ as_single_selection
    \/ volume.is_wipe_tower
    \/ is_wipe_tower(S) /\ ~volume.is_wipe_tower
    \/ ~is_modifier(S) /\ volume.is_modifier
    \/ is_modifier(S) /\ ~volume.is_modifier

\* variant: a volume that is not selected yet always sets Instance mode
resolve_mode_modifier_last(S, volume, volume_idx) ==
    IF ~contains_volume(S, volume_idx) THEN "Instance"
    ELSE IF volume.is_modifier THEN "Volume"
    ELSE S.mode

\* the mode add() sets before it adds: "else -> keep current mode"
resolve_mode(S, volume, volume_idx) ==
    IF volume.is_modifier THEN "Volume"
    ELSE IF ~contains_volume(S, volume_idx) THEN "Instance"
    ELSE S.mode

add(S, volume_idx, as_single_selection) ==
    IF ~m_valid \/ NumVolumes <= volume_idx THEN S
    ELSE LET volume == m_volumes[volume_idx] IN
    IF is_wipe_tower(S) /\ volume.is_wipe_tower THEN S
    ELSE LET S1 == IF needs_reset(S, volume, as_single_selection) THEN clear(S) ELSE S
             S2 == [S1 EXCEPT !.mode = resolve_mode(S1, volume, volume_idx)]
             S3 == IF S2.mode = "Volume"
                   THEN IF volume.volume_idx >= 0
                           /\ (is_empty(S2) \/ volume.instance_idx = get_instance_idx(S2))
                        THEN _add_volume(S2, volume_idx) ELSE S2
                   ELSE _add_instance(S2, volume.object_idx, volume.instance_idx)
         IN  [_update_type(S3) EXCEPT !.dirty = TRUE]

remove(S, volume_idx) ==
    IF ~m_valid \/ NumVolumes <= volume_idx THEN S
    ELSE LET volume == m_volumes[volume_idx]
             S1 == IF S.mode = "Volume" THEN _remove_volume(S, volume_idx)
                   ELSE _remove_instance(S, volume.object_idx, volume.instance_idx)
         IN  [_update_type(S1) EXCEPT !.dirty = TRUE]


add_object(S, object_idx, as_single_selection) ==
    IF ~m_valid THEN S
    ELSE LET S1 == IF as_single_selection THEN clear(S) ELSE S
             S2 == [S1 EXCEPT !.mode = "Instance"]
         IN  [_update_type(_add_object(S2, object_idx)) EXCEPT !.dirty = TRUE]

remove_object(S, object_idx) ==
    IF ~m_valid THEN S
    ELSE [_update_type(_remove_object(S, object_idx)) EXCEPT !.dirty = TRUE]

add_instance(S, object_idx, instance_idx, as_single_selection) ==
    IF ~m_valid THEN S
    ELSE LET S1 == IF as_single_selection THEN clear(S) ELSE S
             S2 == [S1 EXCEPT !.mode = "Instance"]
         IN  [_update_type(_add_instance(S2, object_idx, instance_idx)) EXCEPT !.dirty = TRUE]

remove_instance(S, object_idx, instance_idx) ==
    IF ~m_valid THEN S
    ELSE [_update_type(_remove_instance(S, object_idx, instance_idx)) EXCEPT !.dirty = TRUE]

\* the test of Selection::add_volume on the volume at index i
add_volume_matches(i, object_idx, volume_idx, instance_idx) ==
    /\ m_volumes[i].object_idx = object_idx
    /\ m_volumes[i].volume_idx = volume_idx
    /\ instance_idx # -1
    /\ m_volumes[i].instance_idx = instance_idx

RECURSIVE add_volume_from(_, _, _, _, _)
add_volume_from(S, object_idx, volume_idx, instance_idx, i) ==
    IF i >= NumVolumes THEN S
    ELSE add_volume_from(
            IF add_volume_matches(i, object_idx, volume_idx, instance_idx)
            THEN _add_volume(S, i) ELSE S,
            object_idx, volume_idx, instance_idx, i + 1)

add_volume(S, object_idx, volume_idx, instance_idx, as_single_selection) ==
    IF ~m_valid THEN S
    ELSE LET S1 == IF as_single_selection THEN clear(S) ELSE S
             S2 == [S1 EXCEPT !.mode = "Volume"]
         IN  [_update_type(add_volume_from(S2, object_idx, volume_idx, instance_idx, 0))
                EXCEPT !.dirty = TRUE]

RECURSIVE remove_volume_from(_, _, _, _)
remove_volume_from(S, object_idx, volume_idx, i) ==
    IF i >= NumVolumes THEN S
    ELSE remove_volume_from(
            IF m_volumes[i].object_idx = object_idx /\ m_volumes[i].volume_idx = volume_idx
            THEN _remove_volume(S, i) ELSE S,
            object_idx, volume_idx, i + 1)

remove_volume(S, object_idx, volume_idx) ==
    IF ~m_valid THEN S
    ELSE [_update_type(remove_volume_from(S, object_idx, volume_idx, 0)) EXCEPT !.dirty = TRUE]

\* variant: the wipe tower is added with the other volumes
RECURSIVE add_all_from_wipe_tower_too(_, _)
add_all_from_wipe_tower_too(S, i) ==
    IF i >= NumVolumes THEN S
    ELSE add_all_from_wipe_tower_too(_add_volume(S, i), i + 1)

RECURSIVE add_all_from(_, _)
add_all_from(S, i) ==
    IF i >= NumVolumes THEN S
    ELSE add_all_from(IF ~m_volumes[i].is_wipe_tower THEN _add_volume(S, i) ELSE S, i + 1)

add_all(S) ==
    IF ~m_valid THEN S
    ELSE LET S1 == clear([S EXCEPT !.mode = "Instance"])
         IN  [_update_type(add_all_from(S1, 0)) EXCEPT !.dirty = TRUE]

(***************************************************************************)
(* The bounding box and the snapshot of start_dragging.                    *)
(***************************************************************************)
Min2(a, b) == IF a < b THEN a ELSE b
Max2(a, b) == IF a < b THEN b ELSE a

\* GLVolume::transformed_convex_hull_bounding_box
VolumeBox(S, i) ==
    LET a == WorldPoint(S.transformation[i], Zero3)
        b == WorldPoint(S.transformation[i], HullCorner)
    IN  [defined |-> TRUE,
         min |-> [k \in 1..3 |-> Min2(a[k], b[k])],
         max |-> [k \in 1..3 |-> Max2(a[k], b[k])]]

\* BoundingBoxf3::merge
Merge(a, b) ==
    IF ~a.defined THEN b
    ELSE [defined |-> TRUE,
          min |-> [k \in 1..3 |-> Min2(a.min[k], b.min[k])],
          max |-> [k \in 1..3 |-> Max2(a.max[k], b.max[k])]]

RECURSIVE MergeAll(_, _, _)
MergeAll(S, box, todo) ==
    IF todo = {} THEN box
    ELSE LET i == CHOOSE x \in todo : \A y \in todo : x <= y
         IN  MergeAll(S, Merge(box, VolumeBox(S, i)), todo \ {i})

_calc_bounding_box(S) ==
    [S EXCEPT !.bounding_box = IF m_valid THEN MergeAll(S, EmptyBox, S.list) ELSE EmptyBox,
              !.dirty = FALSE]

\* a get_bounding_box that computes the box once and returns it ever after
get_bounding_box_once(S) ==
    IF S.dirty /\ ~S.bounding_box.defined THEN _calc_bounding_box(S) ELSE S

\* the selection after get_bounding_box(); the box returned is its bounding_box
get_bounding_box(S) == IF S.dirty THEN _calc_bounding_box(S) ELSE S

\* BoundingBoxf3::center
Center(box) == [k \in 1..3 |-> (box.min[k] + box.max[k]) \div 2]

_set_caches(S) ==
    LET B == get_bounding_box(S)
    IN  [B EXCEPT !.volumes_data = [i \in DOMAIN m_volumes |-> S.transformation[i]],
                  !.dragging_center = Center(B.bounding_box)]

start_dragging(S) == IF ~m_valid THEN S ELSE _set_caches(S)

\* m_cache.volumes_data[i]: std::map::operator[] makes a default entry where there is none
volumes_data(S, i) ==
    IF i \in DOMAIN S.volumes_data THEN S.volumes_data[i]
    ELSE [instance |-> DefaultTransformation, volume |-> DefaultTransformation]

\* Selection.hpp
is_single_volume(S) == S.type = "SingleVolume"
is_single_modifier(S) == S.type = "SingleModifier"

is_single_full_instance(S) ==
    IF S.type = "SingleFullInstance" THEN TRUE
    ELSE IF S.type = "SingleFullObject" THEN get_instance_idx(S) # -1
    ELSE IF S.list = {} \/ NumVolumes = 0 THEN FALSE
    ELSE LET object_idx == IF m_valid THEN get_object_idx(S) ELSE -1
         IN  IF object_idx < 0 \/ NumObjects <= object_idx THEN FALSE
             ELSE LET first == CHOOSE x \in S.list : \A y \in S.list : x <= y
                      instance_idx == m_volumes[first].instance_idx
                  IN  /\ \A i \in S.list : /\ m_volumes[i].object_idx = object_idx
                                             /\ m_volumes[i].instance_idx = instance_idx
                      /\ m_model[object_idx].volumes =
                            Cardinality({m_volumes[i].volume_idx : i \in
                                            {k \in S.list : m_volumes[k].volume_idx >= 0}})

(***************************************************************************)
(* Synchronization of the volumes that are not selected.                   *)
(***************************************************************************)
\* rotation_diff_z: the signed angle about Z of the rotation from rot_xyz_from to
\* rot_xyz_to, for two rotations that differ about Z only
rotation_diff_z(rot_xyz_from, rot_xyz_to) ==
    LET diff == MatMul(rotation_matrix(rot_xyz_to), Transpose(rotation_matrix(rot_xyz_from)))
    IN  Atan2(diff[2][1], diff[1][1])

\* is_rotation_xy_synchronized: the two rotations differ by a rotation about Z
is_rotation_xy_synchronized(rot_xyz_from, rot_xyz_to) ==
    MatMul(rotation_matrix(rot_xyz_to), Transpose(rotation_matrix(rot_xyz_from)))[3][3] = 1

SyncRotationTypes == {"SYNC_ROTATION_NONE", "SYNC_ROTATION_FULL", "SYNC_ROTATION_GENERAL"}

\* variant: SYNC_ROTATION_GENERAL leaves an instance its own X and Y
RECURSIVE synchronize_instances_keeping_xy_of(_, _, _, _, _)
synchronize_instances_keeping_xy_of(S, done, i, j, sync_rotation_type) ==
    IF j >= NumVolumes \/ Cardinality(done) = NumVolumes THEN <<S, done>>
    ELSE IF j \in done
            \/ m_volumes[j].object_idx # m_volumes[i].object_idx
            \/ m_volumes[j].instance_idx = m_volumes[i].instance_idx
         THEN synchronize_instances_keeping_xy_of(S, done, i, j + 1, sync_rotation_type)
    ELSE LET from == S.transformation[i].instance
             own == S.transformation[j].instance.rotation
             z_diff == rotation_diff_z(volumes_data(S, i).instance.rotation,
                                       volumes_data(S, j).instance.rotation)
             new_rotation ==
                 CASE sync_rotation_type = "SYNC_ROTATION_NONE" -> own
                   [] sync_rotation_type = "SYNC_ROTATION_FULL" -> from.rotation
                   [] sync_rotation_type = "SYNC_ROTATION_GENERAL" ->
                          <<own[1], own[2], from.rotation[3] + z_diff>>
         IN  synchronize_instances_keeping_xy_of(
                 [S EXCEPT !.transformation[j].instance.rotation = new_rotation,
                           !.transformation[j].instance.scaling_factor = from.scaling_factor,
                           !.transformation[j].instance.mirror = from.mirror],
                 done \cup {j}, i, j + 1, sync_rotation_type)

\* the loop over j of _synchronize_unselected_instances, for the selected volume i
RECURSIVE synchronize_instances_of(_, _, _, _, _)
synchronize_instances_of(S, done, i, j, sync_rotation_type) ==
    IF j >= NumVolumes \/ Cardinality(done) = NumVolumes THEN <<S, done>>
    ELSE IF j \in done
            \/ m_volumes[j].object_idx # m_volumes[i].object_idx
            \/ m_volumes[j].instance_idx = m_volumes[i].instance_idx
         THEN synchronize_instances_of(S, done, i, j + 1, sync_rotation_type)
    ELSE LET from == S.transformation[i].instance
             rotation == from.rotation
             z_diff == rotation_diff_z(volumes_data(S, i).instance.rotation,
                                       volumes_data(S, j).instance.rotation)
             new_rotation ==
                 CASE sync_rotation_type = "SYNC_ROTATION_NONE" -> S.transformation[j].instance.rotation
                   [] sync_rotation_type = "SYNC_ROTATION_FULL" -> rotation
                   [] sync_rotation_type = "SYNC_ROTATION_GENERAL" ->
                          <<rotation[1], rotation[2], rotation[3] + z_diff>>
         IN  synchronize_instances_of(
                 [S EXCEPT !.transformation[j].instance.rotation = new_rotation,
                           !.transformation[j].instance.scaling_factor = from.scaling_factor,
                           !.transformation[j].instance.mirror = from.mirror],
                 done \cup {j}, i, j + 1, sync_rotation_type)

RECURSIVE synchronize_instances_from(_, _, _, _)
synchronize_instances_from(S, done, todo, sync_rotation_type) ==
    IF todo = {} \/ Cardinality(done) = NumVolumes THEN S
    ELSE LET i == CHOOSE x \in todo : \A y \in todo : x <= y
         IN  IF m_volumes[i].object_idx >= SentinelObjectIdx
             THEN synchronize_instances_from(S, done, todo \ {i}, sync_rotation_type)
             ELSE LET R == synchronize_instances_of(S, done, i, 0, sync_rotation_type)
                  IN  synchronize_instances_from(R[1], R[2], todo \ {i}, sync_rotation_type)

_synchronize_unselected_instances(S, sync_rotation_type) ==
    synchronize_instances_from(S, S.list, S.list, sync_rotation_type)

\* a synchronization of the volumes that leaves the offsets alone
RECURSIVE synchronize_volumes_but_offset_of(_, _, _)
synchronize_volumes_but_offset_of(S, i, j) ==
    IF j >= NumVolumes THEN S
    ELSE IF j = i
            \/ m_volumes[j].object_idx # m_volumes[i].object_idx
            \/ m_volumes[j].volume_idx # m_volumes[i].volume_idx
         THEN synchronize_volumes_but_offset_of(S, i, j + 1)
    ELSE synchronize_volumes_but_offset_of(
            [S EXCEPT !.transformation[j].volume =
                          [S.transformation[i].volume EXCEPT !.offset = S.transformation[j].volume.offset]],
            i, j + 1)

RECURSIVE synchronize_volumes_of(_, _, _)
synchronize_volumes_of(S, i, j) ==
    IF j >= NumVolumes THEN S
    ELSE IF j = i
            \/ m_volumes[j].object_idx # m_volumes[i].object_idx
            \/ m_volumes[j].volume_idx # m_volumes[i].volume_idx
         THEN synchronize_volumes_of(S, i, j + 1)
    ELSE synchronize_volumes_of(
            [S EXCEPT !.transformation[j].volume = S.transformation[i].volume], i, j + 1)

RECURSIVE synchronize_volumes_from(_, _)
synchronize_volumes_from(S, todo) ==
    IF todo = {} THEN S
    ELSE LET i == CHOOSE x \in todo : \A y \in todo : x <= y
         IN  synchronize_volumes_from(
                 IF m_volumes[i].object_idx >= SentinelObjectIdx THEN S
                 ELSE synchronize_volumes_of(S, i, 0),
                 todo \ {i})

_synchronize_unselected_volumes(S) == synchronize_volumes_from(S, S.list)

\* the synchronization at the end of translate, rotate, scale and mirror
synchronize(S, sync_rotation_type) ==
    IF S.mode = "Instance" THEN _synchronize_unselected_instances(S, sync_rotation_type)
    ELSE _synchronize_unselected_volumes(S)

(***************************************************************************)
(* rotate.  TransformationType (Selection.hpp) is a record of three flags: *)
(* world or local, relative or absolute, joint or independent.             *)
(***************************************************************************)
TransformationTypes ==
    {t \in [world : BOOLEAN, relative : BOOLEAN, joint : BOOLEAN] : ~t.world \/ t.relative}

\* rotation.cwiseAbs().maxCoeff(&rot_axis_max): the first of the largest components
rot_axis_max_of(rotation) ==
    IF Abs(rotation[1]) >= Abs(rotation[2]) /\ Abs(rotation[1]) >= Abs(rotation[3]) THEN 0
    ELSE IF Abs(rotation[2]) >= Abs(rotation[3]) THEN 1
    ELSE 2

\* object_instance_first[object_idx]: the vector has an element for each object of the
\* model; the element read for the sentinel object index is past its end, and is either
\* -1 or another number
object_instance_first_at(S, object_instance_first, object_idx) ==
    IF object_idx \in DOMAIN object_instance_first THEN object_instance_first[object_idx]
    ELSE IF S.oob THEN 0 ELSE -1

\* variant: the rotation is added to the rotation the volume has now
rotate_instance_from_live(S, object_instance_first, i, rotation, transformation_type) ==
    <<[S EXCEPT !.transformation[i].instance.rotation = VAdd(rotation, @)], object_instance_first>>

\* the lambda rotate_instance: <<the selection, object_instance_first>> after it
rotate_instance(S, object_instance_first, i, rotation, transformation_type) ==
    LET rot_axis_max == rot_axis_max_of(rotation)
        object_idx == m_volumes[i].object_idx
        first_volume_idx == object_instance_first_at(S, object_instance_first, object_idx)
        cached == volumes_data(S, i).instance
    IN  IF rot_axis_max # 2 /\ first_volume_idx # -1
        THEN LET first_rotation == S.transformation[first_volume_idx].instance.rotation
                 z_diff == rotation_diff_z(volumes_data(S, first_volume_idx).instance.rotation,
                                           cached.rotation)
             IN  <<[S EXCEPT !.transformation[i].instance.rotation =
                        <<first_rotation[1], first_rotation[2], first_rotation[3] + z_diff>>],
                   object_instance_first>>
        ELSE LET new_rotation ==
                     IF transformation_type.world
                     THEN extract_euler_angles(MatMul(rotation_matrix(rotation),
                                                      rotation_matrix(cached.rotation)))
                     ELSE IF ~transformation_type.relative THEN rotation
                     ELSE VAdd(rotation, cached.rotation)
                 offset == MatVec(RotationZ(new_rotation[3] - cached.rotation[3]),
                                  VSub(cached.offset, S.dragging_center))
                 S1 == IF rot_axis_max = 2 /\ transformation_type.joint
                       THEN [S EXCEPT !.transformation[i].instance.offset =
                                          VAdd(S.dragging_center, offset)]
                       ELSE S
             IN  <<[S1 EXCEPT !.transformation[i].instance.rotation = new_rotation],
                   IF object_idx \in DOMAIN object_instance_first
                   THEN [object_instance_first EXCEPT ![object_idx] = i]
                   ELSE object_instance_first>>

\* the rotation of a volume within its instance
rotate_volume(S, i, rotation, joint) ==
    LET m == rotation_matrix(rotation)
        cached == volumes_data(S, i)
        new_rotation == extract_euler_angles(MatMul(m, rotation_matrix(cached.volume.rotation)))
        local_pivot == InverseLinearPart(cached.instance,
                                         VSub(S.dragging_center, cached.instance.offset))
        offset == MatVec(m, VSub(cached.volume.offset, local_pivot))
        S1 == IF joint THEN [S EXCEPT !.transformation[i].volume.offset = VAdd(local_pivot, offset)]
              ELSE S
    IN  [S1 EXCEPT !.transformation[i].volume.rotation = new_rotation]

\* the loop of rotate over m_list, for a rotation that is not zero
RECURSIVE rotate_from(_, _, _, _, _)
rotate_from(S, object_instance_first, todo, rotation, transformation_type) ==
    IF todo = {} THEN S
    ELSE LET i == CHOOSE x \in todo : \A y \in todo : x <= y
             R == IF is_single_full_instance(S)
                  THEN rotate_instance(S, object_instance_first, i, rotation, transformation_type)
                  ELSE IF is_single_volume(S) \/ is_single_modifier(S)
                  THEN <<IF ~transformation_type.joint
                         THEN [S EXCEPT !.transformation[i].volume.rotation = VAdd(@, rotation)]
                         ELSE rotate_volume(S, i, rotation, FALSE),
                         object_instance_first>>
                  ELSE IF S.mode = "Instance"
                  THEN rotate_instance(S, object_instance_first, i, rotation, transformation_type)
                  ELSE <<rotate_volume(S, i, rotation, transformation_type.joint),
                         object_instance_first>>
         IN  rotate_from(R[1], R[2], todo \ {i}, rotation, transformation_type)

\* variant: the zero rotation restores the rotations and leaves the offsets
RECURSIVE rotate_restore_rotation_from(_, _)
rotate_restore_rotation_from(S, todo) ==
    IF todo = {} THEN S
    ELSE LET i == CHOOSE x \in todo : \A y \in todo : x <= y
             cached == volumes_data(S, i)
         IN  rotate_restore_rotation_from(
                 IF S.mode = "Instance"
                 THEN [S EXCEPT !.transformation[i].instance.rotation = cached.instance.rotation]
                 ELSE [S EXCEPT !.transformation[i].volume.rotation = cached.volume.rotation],
                 todo \ {i})

\* the loop of rotate over m_list, for the zero rotation
RECURSIVE rotate_restore_from(_, _)
rotate_restore_from(S, todo) ==
    IF todo = {} THEN S
    ELSE LET i == CHOOSE x \in todo : \A y \in todo : x <= y
             cached == volumes_data(S, i)
         IN  rotate_restore_from(
                 IF S.mode = "Instance"
                 THEN [S EXCEPT !.transformation[i].instance.rotation = cached.instance.rotation,
                                !.transformation[i].instance.offset = cached.instance.offset]
                 ELSE [S EXCEPT !.transformation[i].volume.rotation = cached.volume.rotation,
                                !.transformation[i].volume.offset = cached.volume.offset],
                 todo \ {i})

rotate(S, rotation, transformation_type) ==
    IF ~m_valid THEN S
    ELSE LET rot_axis_max == IF rotation = Zero3 THEN 0 ELSE rot_axis_max_of(rotation)
             S1 == IF rotation = Zero3 THEN rotate_restore_from(S, S.list)
                   ELSE rotate_from(S, [o \in DOMAIN m_model |-> -1], S.list, rotation,
                                    transformation_type)
             S2 == synchronize(S1, IF rot_axis_max = 2 THEN "SYNC_ROTATION_NONE"
                                   ELSE "SYNC_ROTATION_GENERAL")
         IN  [S2 EXCEPT !.dirty = TRUE]

(***************************************************************************)
(* translate, scale, mirror and flattening_rotate.                         *)
(***************************************************************************)
\* a translate that moves the volumes from where they are, not from where the drag began
RECURSIVE translate_live_from(_, _, _, _)
translate_live_from(S, todo, displacement, local) ==
    IF todo = {} THEN S
    ELSE LET i == CHOOSE x \in todo : \A y \in todo : x <= y
             live == S.transformation[i]
             local_displacement == InverseLinearPart(live.instance, displacement)
         IN  translate_live_from(
                 IF S.mode = "Volume" \/ m_volumes[i].is_wipe_tower
                 THEN [S EXCEPT !.transformation[i].volume.offset =
                          VAdd(live.volume.offset,
                               IF local THEN displacement ELSE local_displacement)]
                 ELSE [S EXCEPT !.transformation[i].instance.offset =
                          VAdd(live.instance.offset, displacement)],
                 todo \ {i}, displacement, local)

RECURSIVE translate_from(_, _, _, _)
translate_from(S, todo, displacement, local) ==
    IF todo = {} THEN S
    ELSE LET i == CHOOSE x \in todo : \A y \in todo : x <= y
             cached == volumes_data(S, i)
             local_displacement == InverseLinearPart(cached.instance, displacement)
         IN  translate_from(
                 IF S.mode = "Volume" \/ m_volumes[i].is_wipe_tower
                 THEN [S EXCEPT !.transformation[i].volume.offset =
                          VAdd(cached.volume.offset,
                               IF local THEN displacement ELSE local_displacement)]
                 ELSE [S EXCEPT !.transformation[i].instance.offset =
                          VAdd(cached.instance.offset, displacement)],
                 todo \ {i}, displacement, local)

translate(S, displacement, local) ==
    IF ~m_valid THEN S
    ELSE [synchronize(translate_from(S, S.list, displacement, local), "SYNC_ROTATION_NONE")
            EXCEPT !.dirty = TRUE]

\* the loops of translate(object_idx, displacement) and of
\* translate(object_idx, instance_idx, displacement); instance_idx is -1 in the former
translate_matches(i, object_idx, instance_idx) ==
    /\ m_volumes[i].object_idx = object_idx
    /\ instance_idx # -1 => m_volumes[i].instance_idx = instance_idx

RECURSIVE translate_selected_from(_, _, _, _, _)
translate_selected_from(S, todo, object_idx, instance_idx, displacement) ==
    IF todo = {} THEN S
    ELSE LET i == CHOOSE x \in todo : \A y \in todo : x <= y
         IN  translate_selected_from(
                 IF translate_matches(i, object_idx, instance_idx)
                 THEN [S EXCEPT !.transformation[i].instance.offset = VAdd(@, displacement)]
                 ELSE S,
                 todo \ {i}, object_idx, instance_idx, displacement)

\* the inner loop over j: the inner object_idx is that of the selected volume i
RECURSIVE translate_unselected_of(_, _, _, _, _, _)
translate_unselected_of(S, done, i, j, instance_idx, displacement) ==
    IF j >= NumVolumes \/ Cardinality(done) = NumVolumes THEN <<S, done>>
    ELSE IF j \in done \/ ~translate_matches(j, m_volumes[i].object_idx, instance_idx)
         THEN translate_unselected_of(S, done, i, j + 1, instance_idx, displacement)
    ELSE translate_unselected_of(
            [S EXCEPT !.transformation[j].instance.offset = VAdd(@, displacement)],
            done \cup {j}, i, j + 1, instance_idx, displacement)

RECURSIVE translate_unselected_from(_, _, _, _, _)
translate_unselected_from(S, done, todo, instance_idx, displacement) ==
    IF todo = {} \/ Cardinality(done) = NumVolumes THEN S
    ELSE LET i == CHOOSE x \in todo : \A y \in todo : x <= y
         IN  IF m_volumes[i].object_idx >= SentinelObjectIdx
             THEN translate_unselected_from(S, done, todo \ {i}, instance_idx, displacement)
             ELSE LET R == translate_unselected_of(S, done, i, 0, instance_idx, displacement)
                  IN  translate_unselected_from(R[1], R[2], todo \ {i}, instance_idx, displacement)

translate_object(S, object_idx, displacement) ==
    IF ~m_valid THEN S
    ELSE LET S1 == translate_selected_from(S, S.list, object_idx, -1, displacement)
         IN  [translate_unselected_from(S1, S.list, S.list, -1, displacement) EXCEPT !.dirty = TRUE]

translate_instance(S, object_idx, instance_idx, displacement) ==
    IF ~m_valid THEN S
    ELSE LET S1 == translate_selected_from(S, S.list, object_idx, instance_idx, displacement)
         IN  [translate_unselected_from(S1, S.list, S.list, instance_idx, displacement)
                EXCEPT !.dirty = TRUE]

\* the norms of the columns of diag(scale) * diag(cached scaling factor)
ComposedScale(scale, cached) ==
    <<Abs(scale[1] * cached[1]), Abs(scale[2] * cached[2]), Abs(scale[3] * cached[3])>>

RECURSIVE scale_from(_, _, _, _)
scale_from(S, todo, scale, local) ==
    IF todo = {} THEN S
    ELSE LET i == CHOOSE x \in todo : \A y \in todo : x <= y
             cached == volumes_data(S, i)
             center == S.dragging_center
         IN  scale_from(
                 IF is_single_full_instance(S)
                 THEN [S EXCEPT !.transformation[i].instance.scaling_factor = scale]
                 ELSE IF is_single_volume(S) \/ is_single_modifier(S)
                 THEN [S EXCEPT !.transformation[i].volume.scaling_factor = scale]
                 ELSE IF S.mode = "Instance"
                 THEN [S EXCEPT
                         !.transformation[i].instance.offset =
                             IF local THEN @
                             ELSE VAdd(center, VMul(scale, VSub(cached.instance.offset, center))),
                         !.transformation[i].instance.scaling_factor =
                             ComposedScale(scale, cached.instance.scaling_factor)]
                 ELSE [S EXCEPT
                         !.transformation[i].volume.offset =
                             IF local THEN @
                             ELSE VAdd(VSub(center, cached.instance.offset),
                                       VMul(scale, VSub(VAdd(cached.volume.offset,
                                                             cached.instance.offset), center))),
                         !.transformation[i].volume.scaling_factor =
                             ComposedScale(scale, cached.volume.scaling_factor)],
                 todo \ {i}, scale, local)

\* instances_min_z of _ensure_on_bed: the lowest point of the volumes of an instance that
\* are neither modifiers nor the wipe tower
OnBedVolumes(object_idx, instance_idx) ==
    {i \in DOMAIN m_volumes :
        /\ ~m_volumes[i].is_wipe_tower /\ ~m_volumes[i].is_modifier
        /\ m_volumes[i].object_idx = object_idx /\ m_volumes[i].instance_idx = instance_idx}

RECURSIVE MinOf(_)
MinOf(ns) ==
    LET n == CHOOSE x \in ns : TRUE
    IN  IF ns = {n} THEN n ELSE Min2(n, MinOf(ns \ {n}))

\* the lowest point of the volumes of an instance that _ensure_on_bed counts
instance_min_z(S, object_idx, instance_idx) ==
    MinOf({VolumeBox(S, k).min[3] : k \in OnBedVolumes(object_idx, instance_idx)})

\* variant: the instances are left at the height the scaling gave them
_ensure_on_bed_not(S) == S

_ensure_on_bed(S) ==
    [S EXCEPT !.transformation =
        [i \in DOMAIN m_volumes |->
            LET vs == OnBedVolumes(m_volumes[i].object_idx, m_volumes[i].instance_idx)
            IN  IF vs = {} THEN S.transformation[i]
                ELSE [S.transformation[i] EXCEPT !.instance.offset[3] =
                         @ - instance_min_z(S, m_volumes[i].object_idx, m_volumes[i].instance_idx)]]]

scale(S, scale_, local) ==
    IF ~m_valid THEN S
    ELSE [_ensure_on_bed(synchronize(scale_from(S, S.list, scale_, local), "SYNC_ROTATION_NONE"))
            EXCEPT !.dirty = TRUE]

Axes == 1..3

\* a mirror that accepts nothing but a single full instance
RECURSIVE mirror_full_instance_only_from(_, _, _, _)
mirror_full_instance_only_from(S, todo, axis, single_full_instance) ==
    IF todo = {} THEN S
    ELSE LET i == CHOOSE x \in todo : \A y \in todo : x <= y
         IN  mirror_full_instance_only_from(
                 IF single_full_instance
                 THEN [S EXCEPT !.transformation[i].instance.mirror[axis] = -@]
                 ELSE S,
                 todo \ {i}, axis, single_full_instance)

RECURSIVE mirror_from(_, _, _, _)
mirror_from(S, todo, axis, single_full_instance) ==
    IF todo = {} THEN S
    ELSE LET i == CHOOSE x \in todo : \A y \in todo : x <= y
         IN  mirror_from(
                 IF single_full_instance
                 THEN [S EXCEPT !.transformation[i].instance.mirror[axis] = -@]
                 ELSE IF S.mode = "Volume"
                 THEN [S EXCEPT !.transformation[i].volume.mirror[axis] = -@]
                 ELSE S,
                 todo \ {i}, axis, single_full_instance)

mirror(S, axis) ==
    IF ~m_valid THEN S
    ELSE [synchronize(mirror_from(S, S.list, axis, is_single_full_instance(S)),
                      "SYNC_ROTATION_NONE")
            EXCEPT !.dirty = TRUE]

\* the rotation of the given number of quarter turns about an axis that is a unit vector
\* of the grid, or zero: Eigen::AngleAxisd(angle, axis)
AngleAxis(angle, axis) ==
    IF axis[1] # 0 THEN RotationX(angle * axis[1])
    ELSE IF axis[2] # 0 THEN RotationY(angle * axis[2])
    ELSE IF axis[3] # 0 THEN RotationZ(angle * axis[3])
    ELSE Identity3

Sign(n) == IF n > 0 THEN 1 ELSE IF n < 0 THEN -1 ELSE 0

RECURSIVE flattening_rotate_from(_, _, _)
flattening_rotate_from(S, todo, normal) ==
    IF todo = {} THEN S
    ELSE LET i == CHOOSE x \in todo : \A y \in todo : x <= y
             cached == volumes_data(S, i).instance
             rotation == extract_euler_angles(rotation_matrix(cached.rotation))
             \* the normal scaled by 1 / scaling factor, mirrored, rotated and normalized
             t == MatVec(rotation_matrix(rotation), VMul(cached.mirror, normal))
             transformed_normal == <<Sign(t[1]), Sign(t[2]), Sign(t[3])>>
             axis == IF transformed_normal[3] > 0 THEN <<1, 0, 0>>
                     ELSE <<-transformed_normal[2], transformed_normal[1], 0>>
             \* acos(-transformed_normal(2))
             angle == 1 + transformed_normal[3]
             extra_rotation == AngleAxis(angle, axis)
             new_rotation == extract_euler_angles(MatMul(extra_rotation,
                                                         rotation_matrix(cached.rotation)))
         IN  flattening_rotate_from(
                 [S EXCEPT !.transformation[i].instance.rotation = new_rotation],
                 todo \ {i}, normal)

flattening_rotate(S, normal) ==
    IF ~m_valid THEN S
    ELSE LET S1 == flattening_rotate_from(S, S.list, normal)
             S2 == IF S.mode = "Instance"
                   THEN _synchronize_unselected_instances(S1, "SYNC_ROTATION_FULL")
                   ELSE S1
         IN  [S2 EXCEPT !.dirty = TRUE]

(***************************************************************************)
(* Selection::erase: one call of ObjectList::delete_from_model_and_list,   *)
(* recorded in `requests` as the set of the items it was given.  An item   *)
(* is (type, obj_idx, sub_obj_idx).  In the Mixed branch                   *)
(* m_model->objects[glv_obj_idx] is an unchecked access: for the wipe      *)
(* tower it reads past the end of the vector, and the counts read there    *)
(* (`read`) are arbitrary.                                                 *)
(***************************************************************************)
ItemForDelete(type, obj_idx, sub_obj_idx) ==
    [type |-> type, obj_idx |-> obj_idx, sub_obj_idx |-> sub_obj_idx]

\* what a read of m_model->objects past its end may give
OutOfRangeObjects == [volumes : 0..2, instances : 0..2]

model_object_at(obj_idx, read) ==
    IF obj_idx \in DOMAIN m_model THEN m_model[obj_idx] ELSE read

\* the item the first loop of the Mixed branch inserts for the selected volume i, if any
erase_mixed_item(S, i, read) ==
    LET gl_vol == m_volumes[i]
        model_object == model_object_at(gl_vol.object_idx, read)
    IN  IF model_object.instances = 1
        THEN IF model_object.volumes = 1
             THEN {ItemForDelete("itObject", gl_vol.object_idx, -1)}
             ELSE {ItemForDelete("itVolume", gl_vol.object_idx, gl_vol.volume_idx)}
        ELSE IF gl_vol.instance_idx \in S.content[gl_vol.object_idx]
             THEN IF Cardinality(S.content[gl_vol.object_idx]) = model_object.instances
                  THEN {ItemForDelete("itVolume", gl_vol.object_idx, gl_vol.volume_idx)}
                  ELSE {ItemForDelete("itInstance", gl_vol.object_idx, gl_vol.instance_idx)}
             ELSE {}

\* volumes_in_obj: the selected volumes of the objects of one instance and several parts
volumes_in_obj(S, obj_idx, read) ==
    LET model_object == model_object_at(obj_idx, read)
    IN  IF model_object.instances = 1 /\ model_object.volumes # 1
        THEN Cardinality({i \in S.list : m_volumes[i].object_idx = obj_idx})
        ELSE 0

\* the second loop of the Mixed branch
erase_mixed_items(S, read) ==
    LET items_set == UNION {erase_mixed_item(S, i, read) : i \in S.list}
        kept(i) ==
            IF i.type = "itVolume"
               /\ volumes_in_obj(S, i.obj_idx, read) = model_object_at(i.obj_idx, read).volumes
            THEN IF i.sub_obj_idx = volumes_in_obj(S, i.obj_idx, read) - 1
                 THEN {ItemForDelete("itObject", i.obj_idx, 0)}
                 ELSE {}
            ELSE {i}
    IN  UNION {kept(i) : i \in items_set}

\* an erase that requests the selected parts, whatever the type
erase_parts_items(S, read) ==
    IF S.type = "Mixed"
    THEN erase_mixed_items(S, read)
    ELSE {ItemForDelete("itVolume", m_volumes[i].object_idx, m_volumes[i].volume_idx) :
             i \in {j \in S.list : m_volumes[j].volume_idx >= 0}}

erase_items(S, read) ==
    IF S.type = "SingleFullObject"
    THEN {ItemForDelete("itObject", get_object_idx(S), 0)}
    ELSE IF S.type = "MultipleFullObject"
    THEN {ItemForDelete("itObject", o, 0) : o \in DOMAIN S.content}
    ELSE IF S.type = "MultipleFullInstance"
    THEN UNION {{ItemForDelete("itInstance", o, k) : k \in S.content[o]} : o \in DOMAIN S.content}
    ELSE IF is_single_full_instance(S)
    THEN {ItemForDelete("itInstance", get_object_idx(S), get_instance_idx(S))}
    ELSE IF S.type = "Mixed"
    THEN erase_mixed_items(S, read)
    ELSE {ItemForDelete("itVolume", m_volumes[i].object_idx, m_volumes[i].volume_idx) :
             i \in {j \in S.list : m_volumes[j].volume_idx >= 0}}

\* variant: the request is made of a selection that is not bound
erase_unbound_too(S, read) == [S EXCEPT !.requests = Append(@, erase_items(S, read))]

erase(S, read) ==
    IF ~m_valid THEN S
    ELSE [S EXCEPT !.requests = Append(@, erase_items(S, read))]

\* size_t(-1): the volume is not in the new list
Removed == -1

RECURSIVE volumes_changed_from(_, _, _)
volumes_changed_from(S, model_instances, i) ==
    IF i >= NumVolumes THEN S
    ELSE volumes_changed_from(
            IF <<m_volumes[i].object_idx, m_volumes[i].instance_idx>> \in model_instances
            THEN _add_volume(S, i) ELSE S,
            model_instances, i + 1)

\* a volumes_changed that lists the volumes of the selected instances and leaves their flags
volumes_changed_unflagged(S, map_volume_old_to_new) ==
    LET list_new == {map_volume_old_to_new[idx] :
                        idx \in {i \in S.list : map_volume_old_to_new[i] # Removed}}
        added == IF S.mode = "Instance"
                 THEN {i \in DOMAIN m_volumes :
                          \E new_idx \in list_new :
                              /\ m_volumes[i].object_idx = m_volumes[new_idx].object_idx
                              /\ m_volumes[i].instance_idx = m_volumes[new_idx].instance_idx}
                 ELSE {}
    IN  [_update_type([S EXCEPT !.list = list_new \cup added]) EXCEPT !.dirty = TRUE]

\* m_volumes is the new list already; S.list holds indices into the old one
volumes_changed(S, map_volume_old_to_new) ==
    LET list_new == {map_volume_old_to_new[idx] :
                        idx \in {i \in S.list : map_volume_old_to_new[i] # Removed}}
        model_instances ==
            IF S.mode = "Instance"
            THEN {<<m_volumes[new_idx].object_idx, m_volumes[new_idx].instance_idx>> :
                     new_idx \in list_new}
            ELSE {}
        S1 == [S EXCEPT !.list = list_new]
        S2 == IF model_instances # {} THEN volumes_changed_from(S1, model_instances, 0) ELSE S1
    IN  [_update_type(S2) EXCEPT !.dirty = TRUE]

(***************************************************************************)
(* call and pre are history variables.  They record one call of a          *)
(* behaviour, the observed one, with the selection it was made on: calls   *)
(* are made unobserved from the initial state on, any call may be the      *)
(* observed one, and its record is then kept to the end.  Every call made  *)
(* on every reachable selection is the observed call of some behaviour, so *)
(* an invariant over call, pre and the selection speaks of each of them.   *)
(***************************************************************************)
NoCall == [op |-> "none"]
NoReload == [op |-> "none"]
NoPre == [list |-> {}, mode |-> "Instance", type |-> "Empty"]

(***************************************************************************)
(* The state machine.  The selection starts bound (set_volumes and         *)
(* set_model have run) to a scene none of whose volumes is selected.       *)
(***************************************************************************)
InitScene(sc) ==
        /\ m_volumes = SceneVolumes(sc.objs, sc.wt)
        /\ m_model = SceneModel(sc.objs)
        /\ selected = [i \in DOMAIN SceneVolumes(sc.objs, sc.wt) |-> FALSE]
        /\ disabled = [i \in DOMAIN SceneVolumes(sc.objs, sc.wt) |-> FALSE]
        /\ m_valid = TRUE
        /\ m_list = {}
        /\ m_mode = "Instance"
        /\ m_type = "Empty"
        /\ m_cache_content = [o \in {} |-> {}]
        /\ m_bounding_box_dirty = TRUE
        /\ m_bounding_box = EmptyBox
        /\ transformation = [i \in DOMAIN SceneVolumes(sc.objs, sc.wt) |->
                                SceneTransformation(SceneVolumes(sc.objs, sc.wt)[i])]
        /\ m_cache_volumes_data = <<>>
        /\ m_cache_dragging_center = Zero3
        /\ requests = <<>>
        /\ transforms = 0
        /\ reloaded = NoReload
        /\ call = NoCall
        /\ pre = NoPre

Init == \E sc \in Scenes : InitScene(sc)

\* the arguments a caller passes: every index of the scene and one past the end
VolumeArgs == 0..NumVolumes
ObjectArgs == 0..NumObjects
MaxOf(ns) == IF ns = {} THEN 0 ELSE CHOOSE n \in ns : \A k \in ns : k <= n
InstanceArgs == 0..MaxOf({m_model[o].instances : o \in DOMAIN m_model})
PartArgs == 0..MaxOf({m_model[o].volumes : o \in DOMAIN m_model})

\* whether a total that includes counts read past the end of m_model->objects comes out
\* equal to the size of the selection: either, when a volume of the scene has such an
\* object index (the wipe tower)
OutOfRangeReads ==
    IF \E i \in DOMAIN m_volumes : m_volumes[i].object_idx \notin DOMAIN m_model
    THEN BOOLEAN ELSE {FALSE}

\* the mutator leaves the selection S behind; c records the call.  After a reload of
\* the scene the next call is volumes_changed.
Becomes(S, c) ==
    /\ call = NoCall
    /\ reloaded # NoReload <=> c.op = "volumes_changed"
    /\ reloaded' = NoReload
    /\ m_list' = S.list
    /\ selected' = S.selected
    /\ disabled' = S.disabled
    /\ m_mode' = S.mode
    /\ m_type' = S.type
    /\ m_cache_content' = S.content
    /\ m_bounding_box_dirty' = S.dirty
    /\ m_bounding_box' = S.bounding_box
    /\ transformation' = S.transformation
    /\ m_cache_volumes_data' = S.volumes_data
    /\ m_cache_dragging_center' = S.dragging_center
    /\ requests' = S.requests
    /\ \/ call' = c /\ pre' = Cur(FALSE)
       \/ call' = NoCall /\ pre' = NoPre
    /\ UNCHANGED sceneVars

\* a mutator of the selection proper
Mutates(S, c) == Becomes(S, c) /\ UNCHANGED transforms

\* a transform operation, or erase
Transforms(S, c) ==
    /\ transforms < MaxTransforms
    /\ Becomes(S, c)
    /\ transforms' = transforms + 1

Add ==
    \E v \in VolumeArgs, e \in BOOLEAN, g \in OutOfRangeReads :
        Mutates(add(Cur(g), v, e), [op |-> "add", volume_idx |-> v, as_single_selection |-> e])

Remove ==
    \E v \in VolumeArgs, g \in OutOfRangeReads :
        Mutates(remove(Cur(g), v), [op |-> "remove", volume_idx |-> v])

AddObject ==
    \E o \in ObjectArgs, e \in BOOLEAN, g \in OutOfRangeReads :
        Mutates(add_object(Cur(g), o, e), [op |-> "add_object", object_idx |-> o, as_single_selection |-> e])

RemoveObject ==
    \E o \in ObjectArgs, g \in OutOfRangeReads :
        Mutates(remove_object(Cur(g), o), [op |-> "remove_object", object_idx |-> o])

AddInstance ==
    \E o \in ObjectArgs, i \in InstanceArgs, e \in BOOLEAN, g \in OutOfRangeReads :
        Mutates(add_instance(Cur(g), o, i, e),
                [op |-> "add_instance", object_idx |-> o, instance_idx |-> i, as_single_selection |-> e])

RemoveInstance ==
    \E o \in ObjectArgs, i \in InstanceArgs, g \in OutOfRangeReads :
        Mutates(remove_instance(Cur(g), o, i), [op |-> "remove_instance", object_idx |-> o, instance_idx |-> i])

AddVolume ==
    \E o \in ObjectArgs, p \in PartArgs, i \in {-1} \cup InstanceArgs, e \in BOOLEAN,
       g \in OutOfRangeReads :
        Mutates(add_volume(Cur(g), o, p, i, e),
                [op |-> "add_volume", object_idx |-> o, volume_idx |-> p, instance_idx |-> i,
                 as_single_selection |-> e])

RemoveVolume ==
    \E o \in ObjectArgs, p \in PartArgs, g \in OutOfRangeReads :
        Mutates(remove_volume(Cur(g), o, p), [op |-> "remove_volume", object_idx |-> o, volume_idx |-> p])

AddAll == \E g \in OutOfRangeReads : Mutates(add_all(Cur(g)), [op |-> "add_all"])

Clear == \E g \in OutOfRangeReads : Mutates(clear(Cur(g)), [op |-> "clear"])

(***************************************************************************)
(* The scene is reloaded and volumes_changed is called with the map from   *)
(* the old indices to the new.  A volume of the old list is kept, with its *)
(* flags, or released; a released volume whose part and instance are still *)
(* in the model is generated anew, as are the volumes of new parts and new *)
(* instances.  The map sends a kept volume to its index in the new list.   *)
(***************************************************************************)
InstanceVolumesOf(v) ==
    {i \in DOMAIN m_volumes :
        m_volumes[i].object_idx = v.object_idx /\ m_volumes[i].instance_idx = v.instance_idx}

IndexIn(volumes, v) == CHOOSE j \in DOMAIN volumes : volumes[j] = v

ReloadMap(volumes_new, kept) ==
    [i \in DOMAIN m_volumes |->
        IF i \in kept /\ \E j \in DOMAIN volumes_new : volumes_new[j] = m_volumes[i]
        THEN IndexIn(volumes_new, m_volumes[i]) ELSE Removed]

\* the flags of the new list: those of the kept volumes, false for the generated ones
ReloadFlags(volumes_new, map, flags) ==
    [j \in DOMAIN volumes_new |->
        \E i \in DOMAIN m_volumes : map[i] = j /\ flags[i]]

\* what a reload releases: nothing, one volume, or the volumes of one instance
Releases ==
    {{}} \cup {{i} : i \in DOMAIN m_volumes}
         \cup {InstanceVolumesOf(m_volumes[i]) : i \in DOMAIN m_volumes}

\* the caller has rebuilt the list and the model, and has not called volumes_changed yet:
\* m_list holds indices into the old list
Reload ==
    /\ m_valid
    /\ call = NoCall /\ reloaded = NoReload
    /\ \E sc \in Scenes, released \in Releases :
        \E volumes_new \in {SceneVolumes(sc.objs, sc.wt)} :
          \E map \in {ReloadMap(volumes_new, DOMAIN m_volumes \ released)} :
            /\ m_volumes' = volumes_new
            /\ m_model' = SceneModel(sc.objs)
            /\ selected' = ReloadFlags(volumes_new, map, selected)
            /\ disabled' = ReloadFlags(volumes_new, map, disabled)
            /\ transformation' =
                  [j \in DOMAIN volumes_new |->
                      IF \E i \in DOMAIN m_volumes : map[i] = j
                      THEN transformation[CHOOSE i \in DOMAIN m_volumes : map[i] = j]
                      ELSE SceneTransformation(volumes_new[j])]
            /\ reloaded' = [op |-> "reload", map |-> map,
                            pairs |-> {<<m_volumes[i].object_idx, m_volumes[i].instance_idx>> : i \in m_list}]
            /\ UNCHANGED <<m_valid, m_list, m_mode, m_type, m_cache_content, m_bounding_box_dirty,
                           m_bounding_box, m_cache_volumes_data, m_cache_dragging_center,
                           requests, transforms, call, pre>>

VolumesChanged ==
    /\ reloaded # NoReload
    /\ \E g \in OutOfRangeReads :
          Mutates(volumes_changed(Cur(g), reloaded.map),
                  [op |-> "volumes_changed", map |-> reloaded.map, pairs |-> reloaded.pairs])

(***************************************************************************)
(* The transform operations.  Displacements are steps of the grid, angles  *)
(* quarter turns about one axis, scaling factors one and two, normals the  *)
(* unit vectors of the axes.                                               *)
(***************************************************************************)
Displacements == {<<GridStep, 0, 0>>, <<0, 0, GridStep>>}
Rotations == {Zero3, <<0, 0, 1>>, <<0, 0, -1>>, <<1, 0, 0>>, <<0, 1, 0>>}
ScalingFactors == {<<2, 2, 2>>, <<1, 1, 2>>}
Normals == {<<0, 0, 1>>, <<1, 0, 0>>, <<0, -1, 0>>}

\* the center of the box is a point of the grid
CenterIsExact(box) == \A k \in 1..3 : (box.min[k] + box.max[k]) % 2 = 0

StartDragging ==
    /\ call = NoCall
    /\ CenterIsExact(get_bounding_box(Cur(FALSE)).bounding_box)
    /\ Transforms(start_dragging(Cur(FALSE)), [op |-> "start_dragging"])

Translate ==
    /\ call = NoCall
    /\ \E d \in Displacements, l \in BOOLEAN :
          Transforms(translate(Cur(FALSE), d, l),
                     [op |-> "translate", displacement |-> d, local |-> l])

\* translate within a drag: the mouse moves on, or back to where the drag began
DragDisplacements == Displacements \cup {Zero3}

DragTranslate ==
    /\ call = NoCall
    /\ m_cache_volumes_data # <<>>
    /\ \E d \in DragDisplacements, l \in BOOLEAN :
          Transforms(translate(Cur(FALSE), d, l),
                     [op |-> "translate", displacement |-> d, local |-> l])

Rotate ==
    /\ call = NoCall
    /\ \E r \in Rotations, t \in TransformationTypes, g \in OutOfRangeReads :
          Transforms(rotate(Cur(g), r, t),
                     [op |-> "rotate", rotation |-> r, transformation_type |-> t])

Scale ==
    /\ call = NoCall
    /\ \E f \in ScalingFactors, l \in BOOLEAN :
          Transforms(scale(Cur(FALSE), f, l), [op |-> "scale", scale |-> f, local |-> l])

Mirror ==
    /\ call = NoCall
    /\ \E a \in Axes : Transforms(mirror(Cur(FALSE), a), [op |-> "mirror", axis |-> a])

FlatteningRotate ==
    /\ call = NoCall
    /\ \E n \in Normals :
          Transforms(flattening_rotate(Cur(FALSE), n), [op |-> "flattening_rotate", normal |-> n])

TranslateObject ==
    /\ call = NoCall
    /\ \E o \in ObjectArgs, d \in Displacements :
          Transforms(translate_object(Cur(FALSE), o, d),
                     [op |-> "translate_object", object_idx |-> o, displacement |-> d])

TranslateInstance ==
    /\ call = NoCall
    /\ \E o \in ObjectArgs, i \in InstanceArgs, d \in Displacements :
          Transforms(translate_instance(Cur(FALSE), o, i, d),
                     [op |-> "translate_instance", object_idx |-> o, instance_idx |-> i,
                      displacement |-> d])

\* the counts erase reads past the end of m_model->objects, where it reads there
EraseReads ==
    IF m_valid /\ m_type = "Mixed" /\ \E i \in m_list : m_volumes[i].object_idx \notin DOMAIN m_model
    THEN OutOfRangeObjects ELSE {[volumes |-> 0, instances |-> 0]}

Erase ==
    /\ call = NoCall
    /\ \E read \in EraseReads : Transforms(erase(Cur(FALSE), read), [op |-> "erase"])

\* set_model(nullptr): the selection is bound to the volume list alone
SetModel ==
    /\ call = NoCall /\ reloaded = NoReload
    /\ m_valid
    /\ m_valid' = FALSE
    /\ UNCHANGED <<m_volumes, m_model, selected, disabled, m_list, m_mode, m_type, m_cache_content,
                   m_bounding_box_dirty, m_bounding_box, transformation, m_cache_volumes_data,
                   m_cache_dragging_center, requests, transforms, reloaded, call, pre>>

Next ==
    \/ Add \/ Remove
    \/ AddObject \/ RemoveObject
    \/ AddInstance \/ RemoveInstance
    \/ AddVolume \/ RemoveVolume
    \/ AddAll \/ Clear

Spec == Init /\ [][Next]_vars

\* add and remove alone
NextAddRemove == Add \/ Remove
SpecAddRemove == Init /\ [][NextAddRemove]_vars

\* add, remove, add_all and clear
NextPick == Add \/ Remove \/ AddAll \/ Clear
SpecPick == Init /\ [][NextPick]_vars

\* add and remove, and reloads of the scene
NextReload == Add \/ Remove \/ Reload \/ VolumesChanged
SpecReload == Init /\ [][NextReload]_vars

\* a selection is made, and the transform operations are called on it
NextDrag ==
    \/ transforms = 0 /\ NumVolumes <= MaxDragVolumes /\ (Add \/ AddObject)
    \/ StartDragging \/ Rotate
SpecDrag == Init /\ [][NextDrag]_vars

\* a selection is made, and it is translated, rotated, scaled and mirrored, one call
\* fewer than it is rotated in SpecDrag
NextTransform ==
    \/ transforms = 0 /\ NumVolumes <= MaxDragVolumes /\ (Add \/ AddObject)
    \/ transforms + 1 < MaxTransforms
        /\ (StartDragging \/ Translate \/ Rotate \/ Scale \/ Mirror)
SpecTransform == Init /\ [][NextTransform]_vars

\* A selection is made, a drag begins, and the selection is translated in the drag.
NextTranslate ==
    \/ transforms = 0 /\ NumVolumes <= MaxDragVolumes /\ (Add \/ AddObject)
    \/ transforms = 0 /\ m_list # {} /\ StartDragging
    \/ DragTranslate
SpecTranslate == Init /\ [][NextTranslate]_vars

\* A selection is made, and the objects and the instances are translated by index.
NextTranslateObject ==
    \/ transforms = 0 /\ NumVolumes <= MaxDragVolumes /\ (Add \/ AddObject)
    \/ TranslateObject \/ TranslateInstance
SpecTranslateObject == Init /\ [][NextTranslateObject]_vars

\* Mirrors between the changes of a selection, on the scenes of fewer than
\* MaxDragVolumes volumes.
NextMirror ==
    \/ NumVolumes < MaxDragVolumes /\ transforms + 1 < MaxTransforms
        /\ (Add \/ AddObject \/ AddVolume \/ Mirror)
SpecMirror == Init /\ [][NextMirror]_vars

\* A scale, and then mirrors, between the changes of a selection.
NextScaleMirror ==
    \/ transforms + 1 < MaxTransforms /\ (Add \/ AddObject)
    \/ transforms = 0 /\ Scale
    \/ transforms > 0 /\ transforms + 1 < MaxTransforms /\ Mirror
SpecScaleMirror == Init /\ [][NextScaleMirror]_vars

\* A selection is made, and erase is called on it.  The scenes are those of Scenes and,
\* for the selections of some of the instances of an object, those of an object of one
\* more instance.
ManyInstances ==
    { sh \in [volumes : 1..MaxParts, instances : {MaxInstances + 1}, modifiers : {0}] :
        sh.volumes * sh.instances <= MaxVolumes }

EraseScenes == Scenes \cup [objs : {<<a>> : a \in ManyInstances}, wt : {FALSE}]

InitErase == \E sc \in EraseScenes : InitScene(sc)

NextErase ==
    \/ transforms = 0 /\ \/ Add \/ Remove
                         \/ AddObject \/ RemoveObject
                         \/ AddInstance \/ RemoveInstance
                         \/ AddVolume \/ RemoveVolume
                         \/ AddAll \/ Clear
    \/ transforms = 0 /\ Erase
SpecErase == InitErase /\ [][NextErase]_vars

\* get_bounding_box() is const: it changes the cached box and its dirty flag alone
GetBoundingBox ==
    Mutates(get_bounding_box(Cur(FALSE)), [op |-> "get_bounding_box"])

\* The bounding box is read between the changes of a selection and its transforms.
NextBox ==
    \/ transforms = 0 /\ NumVolumes < MaxDragVolumes /\ (Add \/ AddObject \/ Remove \/ Clear)
    \/ transforms + 1 < MaxTransforms /\ m_list # {}
        /\ (StartDragging \/ Translate \/ Rotate \/ Scale \/ Mirror)
    \/ GetBoundingBox
SpecBox == Init /\ [][NextBox]_vars

\* Selections in the scenes of an object whose instances carry an auxiliary volume each.
AuxShapes ==
    [volumes : 1..(MaxParts - 1), instances : 1..MaxInstances, modifiers : {0}, aux : {TRUE}]

AuxScenes ==
    { sc \in [objs : {<<a>> : a \in AuxShapes} \cup {<<a, PartWithModifier>> : a \in AuxShapes},
              wt : {FALSE}] :
        Cardinality(DOMAIN SceneVolumes(sc.objs, sc.wt)) <= MaxVolumes }

InitAux == \E sc \in AuxScenes : InitScene(sc)

NextAux ==
    \/ Add \/ Remove
    \/ AddObject \/ RemoveObject
    \/ AddInstance \/ RemoveInstance
    \/ AddAll \/ Clear
SpecAux == InitAux /\ [][NextAux]_vars

\* A selection is made, and it is laid on a face.
NextFlatten ==
    \/ transforms = 0 /\ NumVolumes <= MaxDragVolumes /\ (Add \/ AddObject)
    \/ transforms + 1 < MaxTransforms /\ (StartDragging \/ FlatteningRotate)
SpecFlatten == Init /\ [][NextFlatten]_vars

\* a selection is made, the model is taken away, and every operation is called
NextUnbound ==
    \/ m_valid /\ (Add \/ SetModel)
    \/ ~m_valid /\ \/ Add \/ Remove \/ AddObject \/ RemoveObject \/ AddInstance \/ RemoveInstance
                    \/ AddVolume \/ RemoveVolume \/ AddAll \/ Clear
                    \/ StartDragging \/ Translate \/ Rotate \/ Scale \/ Mirror \/ FlatteningRotate
                    \/ TranslateObject \/ TranslateInstance \/ Erase
SpecUnbound == Init /\ [][NextUnbound]_vars

TypeOK ==
    /\ m_list \subseteq DOMAIN m_volumes
    /\ m_mode \in Modes
    /\ m_type \in Types
    /\ m_cache_content = CacheContent(m_list)

(***************************************************************************)
(* Vocabulary of the properties.                                           *)
(***************************************************************************)
\* the volumes of an (object, instance) pair
InstanceVolumes(object_idx, instance_idx) ==
    {i \in DOMAIN m_volumes :
        m_volumes[i].object_idx = object_idx /\ m_volumes[i].instance_idx = instance_idx}

\* the volumes that share the (object, instance) pair of volume v
InstanceOf(v) == InstanceVolumes(m_volumes[v].object_idx, m_volumes[v].instance_idx)

ObjectVolumesOf(object_idx) == {i \in DOMAIN m_volumes : m_volumes[i].object_idx = object_idx}

\* the observed call is add(v, _) or remove(v) on a volume of the list
OnVolume(op) == call.op = op /\ call.volume_idx \in DOMAIN m_volumes

ModifierTypes == {"SingleModifier", "MultipleModifier"}

(***************************************************************************)
(* C1.  After any sequence of the mutators on a bound selection whose      *)
(* flags start false, a volume's selected flag is true exactly when its    *)
(* index is in m_list.                                                     *)
(***************************************************************************)
C1_FlagsMatchList ==
    \A i \in DOMAIN m_volumes : selected[i] <=> i \in m_list

\* a bulk removal has left part of a selection behind
C1_Witness ==
    /\ call.op = "remove_volume"
    /\ m_list # {} /\ m_list # pre.list
    /\ \E i \in DOMAIN m_volumes : selected[i]
    /\ \E i \in DOMAIN m_volumes : ~selected[i]

(***************************************************************************)
(* C2.  After add(v, exclusive) of a modifier v the mode is Volume,        *)
(* whatever the selection was; after add(v, exclusive) of a volume that is *)
(* no modifier on an empty selection the mode is Instance.                 *)
(***************************************************************************)
C2_ModeAfterAdd ==
    OnVolume("add") =>
        /\ m_volumes[call.volume_idx].is_modifier => m_mode = "Volume"
        /\ ~m_volumes[call.volume_idx].is_modifier /\ pre.list = {} => m_mode = "Instance"

\* a modifier was added to a selection made of whole instances
C2_Witness ==
    /\ OnVolume("add")
    /\ m_volumes[call.volume_idx].is_modifier
    /\ pre.mode = "Instance" /\ Cardinality(pre.list) >= 2
    /\ m_mode = "Volume" /\ m_list = {call.volume_idx}

(***************************************************************************)
(* C3.  The only volume of an object of one instance and one part, alone   *)
(* in the selection, makes the type SingleFullObject; exactly the parts of *)
(* one instance of an object of 3 parts and 2 instances make it            *)
(* SingleFullInstance.                                                     *)
(***************************************************************************)
C3_SingleFullTypes ==
    /\ \A i \in DOMAIN m_volumes :
          /\ m_list = {i}
          /\ m_volumes[i].object_idx \in DOMAIN m_model
          /\ m_model[m_volumes[i].object_idx] = [volumes |-> 1, instances |-> 1]
          => m_type = "SingleFullObject"
    /\ \A o \in DOMAIN m_model, n \in InstanceArgs :
          /\ m_model[o] = [volumes |-> 3, instances |-> 2]
          /\ InstanceVolumes(o, n) # {}
          /\ m_list = InstanceVolumes(o, n)
          => m_type = "SingleFullInstance"

\* the three parts of the second instance of an object of 3 parts and 2 instances
C3_Witness ==
    \E o \in DOMAIN m_model :
        /\ m_model[o] = [volumes |-> 3, instances |-> 2]
        /\ m_list = InstanceVolumes(o, 1)
        /\ Cardinality(m_list) = 3
        /\ m_type = "SingleFullInstance"

(***************************************************************************)
(* C4.  As stated: all 6 volumes of an object of 3 parts and 2 instances,  *)
(* and nothing else, make the type MultipleFullObject.                     *)
(***************************************************************************)
C4_AsStated ==
    \A o \in DOMAIN m_model :
        m_model[o] = [volumes |-> 3, instances |-> 2] /\ m_list = ObjectVolumesOf(o)
        => m_type = "MultipleFullObject"

(***************************************************************************)
(* C4, amended.  All 6 volumes of an object of 3 parts and 2 instances,    *)
(* and nothing else, make the type SingleFullObject (one object is         *)
(* touched, and volumes_count * instances_count is the size of the list).  *)
(***************************************************************************)
C4_WholeObjectIsSingleFullObject ==
    \A o \in DOMAIN m_model :
        m_model[o] = [volumes |-> 3, instances |-> 2] /\ m_list = ObjectVolumesOf(o)
        => m_type = "SingleFullObject" /\ m_mode = "Instance"

C4_Witness ==
    \E o \in DOMAIN m_model :
        /\ m_model[o] = [volumes |-> 3, instances |-> 2]
        /\ m_list = ObjectVolumesOf(o)
        /\ Cardinality(m_list) = 6
        /\ m_type = "SingleFullObject"

(***************************************************************************)
(* C5.  After any sequence of add, remove, add_all and clear: a selected   *)
(* wipe tower is the only selected volume; add of the wipe tower leaves it *)
(* alone in the selection, and add of another volume while the wipe tower  *)
(* is selected leaves nothing of the prior selection.                      *)
(***************************************************************************)
C5_WipeTowerAlone ==
    /\ \A i \in m_list : m_volumes[i].is_wipe_tower => m_list = {i}
    /\ OnVolume("add") /\ m_volumes[call.volume_idx].is_wipe_tower => m_list = {call.volume_idx}
    /\ OnVolume("add") /\ ~m_volumes[call.volume_idx].is_wipe_tower
          /\ (\E i \in pre.list : m_volumes[i].is_wipe_tower)
          => m_list = InstanceOf(call.volume_idx) \/ m_list = {call.volume_idx}

\* a volume of the model was added while the wipe tower was selected
C5_Witness ==
    /\ OnVolume("add") /\ ~call.as_single_selection
    /\ ~m_volumes[call.volume_idx].is_wipe_tower
    /\ pre.type = "WipeTower"
    /\ \E i \in pre.list : m_volumes[i].is_wipe_tower
    /\ call.volume_idx \in m_list
    /\ \A i \in m_list : ~m_volumes[i].is_wipe_tower

(***************************************************************************)
(* C6.  As stated: no sequence of add and remove calls leaves both a       *)
(* modifier and a volume that is no modifier in the selection.             *)
(***************************************************************************)
HasModifier(list) == \E i \in list : m_volumes[i].is_modifier
HasNonModifier(list) == \E i \in list : ~m_volumes[i].is_modifier

C6_AsStated == ~(HasModifier(m_list) /\ HasNonModifier(m_list))

(***************************************************************************)
(* C6, amended.  After any sequence of add and remove calls, the selection *)
(* holds both a modifier and a volume that is no modifier only in Instance *)
(* mode, where whole instances are selected with the modifiers they        *)
(* contain; in Volume mode it never does.  add of a modifier while the     *)
(* type of the selection is not a modifier type, and add of a volume that  *)
(* is no modifier while it is, clear the selection first: afterwards the   *)
(* selection lies within the instance of the added volume, and holds just  *)
(* that volume when it is a modifier.                                      *)
(***************************************************************************)
C6_KindsMixOnlyInInstanceMode ==
    /\ m_mode = "Volume" => ~(HasModifier(m_list) /\ HasNonModifier(m_list))
    /\ OnVolume("add") /\ m_volumes[call.volume_idx].is_modifier /\ pre.type \notin ModifierTypes
          => m_list = {call.volume_idx}
    /\ OnVolume("add") /\ ~m_volumes[call.volume_idx].is_modifier /\ pre.type \in ModifierTypes
          => m_list = InstanceOf(call.volume_idx)

\* a modifier was added, not exclusively, to a selection that held a model part
C6_Witness ==
    /\ OnVolume("add") /\ ~call.as_single_selection
    /\ m_volumes[call.volume_idx].is_modifier
    /\ HasNonModifier(pre.list)
    /\ m_mode = "Volume" /\ m_list = {call.volume_idx}

(***************************************************************************)
(* C7.  In Volume mode, add(v, false) on a selection that is not empty     *)
(* adds v only when v has the object index and the instance index of the   *)
(* volumes already selected; otherwise the selection is unchanged.         *)
(* Volume mode on a selection that is not empty: the call does not reset   *)
(* the list, and v is a modifier or is selected already in Volume mode.    *)
(***************************************************************************)
\* the observed add found the list as it was called on, and resolved to Volume mode
AddInVolumeMode ==
    /\ OnVolume("add")
    /\ ~needs_reset([type |-> pre.type], m_volumes[call.volume_idx], call.as_single_selection)
    /\ \/ m_volumes[call.volume_idx].is_modifier
       \/ call.volume_idx \in pre.list /\ pre.mode = "Volume"

C7_VolumeModeKeepsToTheInstance ==
    AddInVolumeMode /\ ~call.as_single_selection /\ pre.list # {}
    => IF pre.list \subseteq InstanceOf(call.volume_idx)
       THEN m_list = pre.list \cup {call.volume_idx}
       ELSE m_list = pre.list

(***************************************************************************)
(* C8.  When add(v, exclusive) resolves to Instance mode (v is no modifier *)
(* and was not selected), every volume of the (object, instance) pair of v *)
(* is selected afterwards, and no volume outside the pair when exclusive.  *)
(***************************************************************************)
C8_AddSelectsTheInstance ==
    OnVolume("add") /\ ~m_volumes[call.volume_idx].is_modifier /\ call.volume_idx \notin pre.list
    => /\ InstanceOf(call.volume_idx) \subseteq m_list
       /\ \A i \in InstanceOf(call.volume_idx) : selected[i]
       /\ call.as_single_selection => m_list = InstanceOf(call.volume_idx)

\* an exclusive add replaced a selection by an instance of several volumes
C8_Witness ==
    /\ OnVolume("add") /\ call.as_single_selection
    /\ ~m_volumes[call.volume_idx].is_modifier
    /\ pre.list # {} /\ call.volume_idx \notin pre.list
    /\ ~(pre.list \subseteq m_list)
    /\ m_list = InstanceOf(call.volume_idx) /\ Cardinality(m_list) >= 2

(***************************************************************************)
(* C9.  remove(v) in Instance mode deselects every volume of the (object,  *)
(* instance) pair of v and no other; in Volume mode it deselects v alone.  *)
(***************************************************************************)
C9_RemoveByMode ==
    OnVolume("remove")
    => /\ pre.mode = "Instance" => m_list = pre.list \ InstanceOf(call.volume_idx)
       /\ pre.mode = "Volume" => m_list = pre.list \ {call.volume_idx}
       /\ \A i \in DOMAIN m_volumes : selected[i] <=> i \in m_list

\* one of several selected instances, of several volumes, was removed
C9_Witness ==
    /\ OnVolume("remove") /\ pre.mode = "Instance"
    /\ Cardinality(InstanceOf(call.volume_idx)) >= 2
    /\ InstanceOf(call.volume_idx) \subseteq pre.list
    /\ m_list # {}
    /\ m_list = pre.list \ InstanceOf(call.volume_idx)

(***************************************************************************)
(* C10.  add_volume(object, part, instance, exclusive) with instance = -1  *)
(* selects every volume of that object and part, in every instance; with   *)
(* instance >= 0 it selects, of that object and part, the volume of that   *)
(* instance only.                                                          *)
(***************************************************************************)
PartVolumes(object_idx, volume_idx) ==
    {i \in DOMAIN m_volumes :
        m_volumes[i].object_idx = object_idx /\ m_volumes[i].volume_idx = volume_idx}

C10_AddVolumeByInstance ==
    call.op = "add_volume"
    => LET added == IF call.instance_idx = -1
                    THEN PartVolumes(call.object_idx, call.volume_idx)
                    ELSE PartVolumes(call.object_idx, call.volume_idx)
                            \cap InstanceVolumes(call.object_idx, call.instance_idx)
       IN  m_list = (IF call.as_single_selection THEN {} ELSE pre.list) \cup added

(***************************************************************************)
(* C11.  clear() followed by add_all() on a bound selection leaves exactly *)
(* the volumes that are not the wipe tower selected, each of them and not  *)
(* the wipe tower, and the mode Instance.  add_all() calls clear() itself, *)
(* so this holds of add_all() on every selection, the empty one that       *)
(* clear() leaves included.                                                *)
(***************************************************************************)
C11_AddAllSelectsTheModel ==
    call.op = "add_all" /\ m_valid
    => /\ m_list = {i \in DOMAIN m_volumes : ~m_volumes[i].is_wipe_tower}
       /\ \A i \in DOMAIN m_volumes : selected[i] <=> ~m_volumes[i].is_wipe_tower
       /\ m_mode = "Instance"

\* add_all() on the selection clear() leaves, in a scene of two objects and the wipe tower
C11_Witness ==
    /\ call.op = "add_all" /\ m_valid
    /\ pre.list = {} /\ pre.type = "Empty"
    /\ \E i \in DOMAIN m_volumes : m_volumes[i].is_wipe_tower
    /\ Cardinality(DOMAIN m_model) = 2
    /\ Cardinality(m_list) = NumVolumes - 1

(***************************************************************************)
(* C12.  clear() on a bound selection, from any reachable state, leaves    *)
(* m_list empty, the selected flag of every volume false and the type      *)
(* Empty.                                                                  *)
(***************************************************************************)
C12_ClearEmpties ==
    call.op = "clear" /\ m_valid
    => /\ m_list = {}
       /\ \A i \in DOMAIN m_volumes : ~selected[i]
       /\ m_type = "Empty"

\* clear() on a selection of several volumes
C12_Witness ==
    /\ call.op = "clear" /\ m_valid
    /\ Cardinality(pre.list) >= 2 /\ pre.type = "Mixed"
    /\ m_list = {} /\ m_type = "Empty"

(***************************************************************************)
(* C13.  volumes_changed(map) replaces each selected index by its image    *)
(* under map and drops the indices mapped to "removed"; in Instance mode   *)
(* it leaves selected, besides, every volume of the new list that belongs  *)
(* to an (object, instance) pair that was represented in the selection     *)
(* before the remapping.                                                   *)
(***************************************************************************)
\* the images of the selected indices that the observed volumes_changed was given
Remapped == {call.map[i] : i \in {k \in pre.list : call.map[k] # Removed}}

\* the volumes of the new list in the pairs of the given set
VolumesOfPairs(pairs) ==
    {j \in DOMAIN m_volumes : <<m_volumes[j].object_idx, m_volumes[j].instance_idx>> \in pairs}

C13_RemapAndFillInstances ==
    call.op = "volumes_changed"
    => /\ m_list = Remapped \cup (IF pre.mode = "Instance" THEN VolumesOfPairs(call.pairs) ELSE {})
       /\ \A j \in DOMAIN m_volumes : selected[j] <=> j \in m_list

(***************************************************************************)
(* C14.  When the selection touches two or more objects, its type is       *)
(* MultipleFullObject exactly when every volume of the list that belongs   *)
(* to a touched object is selected, and Mixed in every other case.         *)
(***************************************************************************)
TouchedObjects == {m_volumes[i].object_idx : i \in m_list}

C14_MultipleObjectsFullOrMixed ==
    Cardinality(TouchedObjects) >= 2
    => IF \A i \in DOMAIN m_volumes : m_volumes[i].object_idx \in TouchedObjects => i \in m_list
       THEN m_type = "MultipleFullObject"
       ELSE m_type = "Mixed"

(***************************************************************************)
(* C15.  After every selection mutator, the disabled flag of a volume is   *)
(* true exactly when the type is SingleVolume, SingleModifier,             *)
(* MultipleVolume or MultipleModifier and the volume does not belong to    *)
(* the (object, instance) pair of the selection; for every other type the  *)
(* disabled flag of every volume is false.                                 *)
(***************************************************************************)
DisablingTypes == {"SingleVolume", "SingleModifier", "MultipleVolume", "MultipleModifier"}

SelectedPairs == {<<m_volumes[i].object_idx, m_volumes[i].instance_idx>> : i \in m_list}

C15_DisabledOutsideTheInstance ==
    \A i \in DOMAIN m_volumes :
        disabled[i] <=> /\ m_type \in DisablingTypes
                        /\ SelectedPairs # {<<m_volumes[i].object_idx, m_volumes[i].instance_idx>>}

\* a modifier was added in an object of two instances: the volumes of the other instance
\* are disabled, those of its own are not
C15_Witness ==
    /\ call.op = "add" /\ m_type = "SingleModifier"
    /\ \E i \in DOMAIN m_volumes : disabled[i]
    /\ \E i \in DOMAIN m_volumes \ m_list : ~disabled[i]
    /\ \A i \in m_list : ~disabled[i]

(***************************************************************************)
(* C17.  A mutator called with an index that is out of range is a no-op:   *)
(* add(i, exclusive) and remove(i) with i >= the number of volumes, and    *)
(* add_object, add_instance and add_volume with an object, instance or     *)
(* part index that matches no volume, leave m_list, the selected flags,    *)
(* the mode and the type as they were, for either value of exclusive.      *)
(***************************************************************************)
\* the observed call was given an index that no volume of the list has
OutOfRange ==
    \/ call.op \in {"add", "remove"} /\ call.volume_idx \notin DOMAIN m_volumes
    \/ call.op = "add_object" /\ ObjectVolumesOf(call.object_idx) = {}
    \/ call.op = "add_instance" /\ InstanceVolumes(call.object_idx, call.instance_idx) = {}
    \/ call.op = "add_volume"
          /\ {i \in PartVolumes(call.object_idx, call.volume_idx) :
                 call.instance_idx \in {-1, m_volumes[i].instance_idx}} = {}

C17_OutOfRangeIsNoOp ==
    OutOfRange
    => /\ m_list = pre.list /\ m_mode = pre.mode /\ m_type = pre.type
       /\ \A i \in DOMAIN m_volumes : selected[i] <=> i \in pre.list

(***************************************************************************)
(* C16.  While the selection is not bound to both a volume list and a      *)
(* model, a call of add, remove, the bulk adds and removes, add_all,       *)
(* clear, start_dragging, translate, rotate, scale, mirror,                *)
(* flattening_rotate or erase leaves the list, the mode, the type, the     *)
(* cache and the bounding box as they were, leaves the flags and the       *)
(* transformations of the volumes as they were, and makes no deletion      *)
(* request.                                                                *)
(***************************************************************************)
C16_UnboundIsNoOp ==
    call # NoCall /\ ~m_valid =>
        /\ m_list = pre.list /\ m_mode = pre.mode /\ m_type = pre.type
        /\ m_cache_content = pre.content
        /\ m_bounding_box_dirty = pre.dirty /\ m_bounding_box = pre.bounding_box
        /\ m_cache_volumes_data = pre.volumes_data
        /\ m_cache_dragging_center = pre.dragging_center
        /\ selected = pre.selected /\ disabled = pre.disabled
        /\ transformation = pre.transformation
        /\ requests = pre.requests

\* erase was called on a selection of some volumes that is not bound
C16_Witness ==
    /\ call.op = "erase" /\ ~m_valid
    /\ m_list # {}
    /\ requests = <<>>

(***************************************************************************)
(* C18.  After start_dragging, and whatever rotations were made since,     *)
(* rotate with the zero vector leaves every selected volume with the       *)
(* rotation and the offset that start_dragging captured: those of its      *)
(* instance in Instance mode, those of the volume in Volume mode.          *)
(***************************************************************************)
\* start_dragging has captured the volumes
Captured == m_cache_volumes_data # <<>>

C18_ZeroRotationRestores ==
    call.op = "rotate" /\ call.rotation = Zero3 /\ Captured =>
        \A i \in m_list :
            /\ m_mode = "Instance" =>
                  /\ transformation[i].instance.rotation = m_cache_volumes_data[i].instance.rotation
                  /\ transformation[i].instance.offset = m_cache_volumes_data[i].instance.offset
            /\ m_mode = "Volume" =>
                  /\ transformation[i].volume.rotation = m_cache_volumes_data[i].volume.rotation
                  /\ transformation[i].volume.offset = m_cache_volumes_data[i].volume.offset

\* the zero rotation was asked for after a rotation that had moved and turned a selected
\* volume away from what start_dragging captured
C18_Witness ==
    /\ call.op = "rotate" /\ call.rotation = Zero3 /\ Captured
    /\ \E i \in m_list :
          /\ pre.transformation[i].instance.rotation # m_cache_volumes_data[i].instance.rotation
          /\ pre.transformation[i].instance.offset # m_cache_volumes_data[i].instance.offset

(***************************************************************************)
(* C19.  As stated: for a single full instance, rotate((0, 0, a)) followed *)
(* by rotate((0, 0, -a)) leaves the rotation of the instance equal to the  *)
(* one start_dragging captured.                                            *)
(* As it holds: a rotation about Z is applied to the rotation that         *)
(* start_dragging captured, not to the one the instance has: after a       *)
(* relative rotate((0, 0, a)) the rotation of the instance is the captured *)
(* one turned by a about Z, after an absolute one it is (0, 0, a),         *)
(* whatever rotations were made since start_dragging.                      *)
(***************************************************************************)
AboutZ == {r \in Rotations : r[1] = 0 /\ r[2] = 0 /\ r[3] # 0}

\* rotate(rotation) was the call before: the selection was as that call leaves it
WasRotatedBy(rotation, transformation_type) ==
    rotate(pre, rotation, transformation_type) = pre

C19_AsStated ==
    /\ call.op = "rotate" /\ call.rotation \in AboutZ /\ Captured
    /\ is_single_full_instance(Cur(FALSE))
    /\ call.transformation_type.relative
    /\ WasRotatedBy(<<0, 0, -call.rotation[3]>>, call.transformation_type)
    => \A i \in m_list :
          transformation[i].instance.rotation = m_cache_volumes_data[i].instance.rotation

C19_RotationIsFromTheSnapshot ==
    /\ call.op = "rotate" /\ call.rotation \in AboutZ /\ Captured
    /\ is_single_full_instance(Cur(FALSE))
    => \A i \in m_list :
          IF call.transformation_type.relative
          THEN rotation_matrix(transformation[i].instance.rotation) =
                  MatMul(RotationZ(call.rotation[3]),
                         rotation_matrix(m_cache_volumes_data[i].instance.rotation))
          ELSE transformation[i].instance.rotation = call.rotation

\* a single full instance was turned about Z by a quarter, and then by a quarter the
\* other way: it is left a quarter from where start_dragging found it
C19_Witness ==
    /\ call.op = "rotate" /\ call.rotation \in AboutZ /\ Captured
    /\ is_single_full_instance(Cur(FALSE))
    /\ call.transformation_type.relative /\ ~call.transformation_type.world
    /\ WasRotatedBy(<<0, 0, -call.rotation[3]>>, call.transformation_type)
    /\ \E i \in m_list :
          /\ pre.transformation[i].instance.rotation # m_cache_volumes_data[i].instance.rotation
          /\ transformation[i].instance.rotation =
                VAdd(m_cache_volumes_data[i].instance.rotation, call.rotation)

(***************************************************************************)
(* C20.  As stated: after a rotate in Instance mode that synchronizes with *)
(* SYNC_ROTATION_GENERAL, every instance of an object of the selection has *)
(* the X and Y rotation it had before the call, and the Z rotations of the *)
(* instances of the object have all changed by the same amount.            *)
(* As it holds: the selected volumes of the object and the volumes of its  *)
(* other instances all have the X and Y rotation that the call gave the    *)
(* selected instance, and each that start_dragging found turned about Z    *)
(* against the selected instance is turned against it by as much.          *)
(***************************************************************************)
\* the call was a rotate in Instance mode that ended with SYNC_ROTATION_GENERAL
GeneralSync ==
    /\ call.op = "rotate" /\ pre.mode = "Instance"
    /\ call.rotation = Zero3 \/ rot_axis_max_of(call.rotation) # 2

\* the volumes of the object of volume i
Siblings(i) ==
    {j \in DOMAIN m_volumes : m_volumes[j].object_idx = m_volumes[i].object_idx}

\* those of them that are selected or belong to another instance: a volume of the
\* instance of volume i that is not selected is left as it was
Synchronized(i) ==
    {j \in Siblings(i) : j \in m_list \/ m_volumes[j].instance_idx # m_volumes[i].instance_idx}

\* the rotation that takes the instance of volume i to that of volume j
RotationBetween(t, i, j) ==
    MatMul(rotation_matrix(t[j].instance.rotation),
           Transpose(rotation_matrix(t[i].instance.rotation)))

SameXY(t, i, j) ==
    /\ t[i].instance.rotation[1] = t[j].instance.rotation[1]
    /\ t[i].instance.rotation[2] = t[j].instance.rotation[2]

\* the volumes of each object have the same X and Y instance rotation
ObjectsShareXY(t) ==
    \A i \in DOMAIN m_volumes : \A j \in Siblings(i) : SameXY(t, i, j)

AboutOneAxis(r) == Cardinality({k \in 1..3 : r[k] # 0}) = 1

C21_RotateKeepsXYShared ==
    /\ call.op = "rotate" /\ pre.mode = "Instance" /\ AboutOneAxis(call.rotation)
    /\ Captured /\ ObjectsShareXY(m_cache_volumes_data)
    => ObjectsShareXY(transformation)

(***************************************************************************)
(* C22.  After scale, every instance of the volume list that has a volume  *)
(* that is neither a modifier nor the wipe tower stands on the bed: the    *)
(* lowest point of those volumes of the instance is at height 0.           *)
(***************************************************************************)
\* the (object, instance) pairs that have a volume _ensure_on_bed counts
InstancesOnBed ==
    {<<m_volumes[i].object_idx, m_volumes[i].instance_idx>> :
        i \in {k \in DOMAIN m_volumes : ~m_volumes[k].is_wipe_tower /\ ~m_volumes[k].is_modifier}}

C22_ScaleLeavesOnBed ==
    call.op = "scale" => \A p \in InstancesOnBed : instance_min_z(Cur(FALSE), p[1], p[2]) = 0

\* the scaling and the synchronization of the call had left an instance off the bed
C22_Witness ==
    /\ call.op = "scale" /\ m_list # {}
    /\ \E p \in InstancesOnBed :
          /\ instance_min_z(synchronize(scale_from(pre, pre.list, call.scale, call.local),
                                        "SYNC_ROTATION_NONE"), p[1], p[2]) # 0
          /\ instance_min_z(Cur(FALSE), p[1], p[2]) = 0

(***************************************************************************)
(* C23.  As stated: mirror on a selection of type MultipleVolume changes   *)
(* no volume mirror and no instance mirror of any volume.                  *)
(* As it holds: in Volume mode mirror flips the volume mirror, on the      *)
(* axis, of every selected volume of a MultipleVolume selection and of the *)
(* volumes of the same parts in the other instances; it changes no         *)
(* instance mirror.                                                        *)
(***************************************************************************)
Flipped(mirror_, axis) == [mirror_ EXCEPT ![axis] = -@]

\* the volumes of the part of a selected volume
PartSiblings ==
    {j \in DOMAIN m_volumes :
        \E i \in m_list : /\ m_volumes[i].object_idx < SentinelObjectIdx
                          /\ m_volumes[j].object_idx = m_volumes[i].object_idx
                          /\ m_volumes[j].volume_idx = m_volumes[i].volume_idx}

C24_MirrorOfManyIsNoOp ==
    /\ call.op = "mirror" /\ pre.mode = "Instance"
    /\ pre.type \in {"MultipleFullInstance", "MultipleFullObject", "Mixed"}
    => transformation = pre.transformation

(***************************************************************************)
(* C25.  After translate, rotate, scale or mirror in Instance mode, every  *)
(* unselected volume that shares the (object, instance) pair of a selected *)
(* volume has that selected volume's instance rotation, instance scaling   *)
(* factor and instance mirror.                                             *)
(***************************************************************************)
TransformOps == {"translate", "rotate", "scale", "mirror"}

C25_InstanceModeSyncWithinTheInstance ==
    call.op \in TransformOps /\ pre.mode = "Instance" =>
        \A i \in m_list : \A j \in InstanceOf(i) \ m_list :
            /\ transformation[j].instance.rotation = transformation[i].instance.rotation
            /\ transformation[j].instance.scaling_factor = transformation[i].instance.scaling_factor
            /\ transformation[j].instance.mirror = transformation[i].instance.mirror

(***************************************************************************)
(* C26.  After translate, rotate, scale or mirror in Volume mode, every    *)
(* unselected volume of the (object, part) of a selected volume has that   *)
(* selected volume's volume offset, volume rotation, volume scaling factor *)
(* and volume mirror.                                                      *)
(***************************************************************************)
PartOf(i) == PartVolumes(m_volumes[i].object_idx, m_volumes[i].volume_idx)

C26_VolumeModeSyncOfThePart ==
    call.op \in TransformOps /\ pre.mode = "Volume" =>
        \A i \in m_list : \A j \in PartOf(i) \ m_list :
            /\ transformation[j].volume.offset = transformation[i].volume.offset
            /\ transformation[j].volume.rotation = transformation[i].volume.rotation
            /\ transformation[j].volume.scaling_factor = transformation[i].volume.scaling_factor
            /\ transformation[j].volume.mirror = transformation[i].volume.mirror

\* a Volume-mode call changed the selected volume and, with it, the unselected volume of
\* the same part in another instance
C26_Witness ==
    /\ call.op \in TransformOps /\ pre.mode = "Volume"
    /\ \E i \in m_list : \E j \in PartOf(i) \ m_list :
          /\ transformation[i].volume # pre.transformation[i].volume
          /\ transformation[j].volume # pre.transformation[j].volume

(***************************************************************************)
(* C27.  erase never makes a request that names a volume that is not of    *)
(* the model, whatever the type of the selection: no item of a request     *)
(* names a part of negative index, none names an object of the sentinel    *)
(* index or more (the wipe tower).                                         *)
(***************************************************************************)
Requested == UNION {requests[k] : k \in DOMAIN requests}

C27_EraseNamesModelVolumesOnly ==
    call.op = "erase" =>
        \A item \in Requested :
            /\ item.obj_idx < SentinelObjectIdx
            /\ item.type = "itVolume" => item.sub_obj_idx >= 0

(***************************************************************************)
(* C28.  erase on a Mixed selection in which every part of an object is    *)
(* flagged for the deletion of the part makes one request for the whole    *)
(* object and none for a part of it, whatever the number of instances of   *)
(* the object.                                                             *)
(***************************************************************************)
\* the items of the last request
LastRequest == requests[Len(requests)]

\* the first loop of the Mixed branch flagged part volume_idx of the object for deletion
FlaggedPart(object_idx, volume_idx) ==
    \E i \in pre.list :
        /\ m_volumes[i].object_idx = object_idx
        /\ erase_mixed_item(pre, i, m_model[object_idx])
             = {ItemForDelete("itVolume", object_idx, volume_idx)}

AllPartsFlagged(object_idx) ==
    \A volume_idx \in 0..(m_model[object_idx].volumes - 1) : FlaggedPart(object_idx, volume_idx)

C28_AllPartsCollapseToObject ==
    call.op = "erase" /\ pre.type = "Mixed" =>
        \A o \in DOMAIN m_model :
            AllPartsFlagged(o) =>
                /\ Cardinality({item \in LastRequest : item.type = "itObject" /\ item.obj_idx = o}) = 1
                /\ \A item \in LastRequest : ~(item.type = "itVolume" /\ item.obj_idx = o)

(***************************************************************************)
(* C29.  erase on a Mixed selection promotes each selected volume to one   *)
(* request: the whole object when its object has one instance and one      *)
(* part, the whole part when every instance of the part is in the          *)
(* selection, the instance otherwise; a request holds nothing else, but    *)
(* the whole object in place of the parts of an object.  It is stated of   *)
(* the volumes of the objects of the model.                                *)
(***************************************************************************)
Promotion(i) ==
    LET v == m_volumes[i]
        model_object == m_model[v.object_idx]
    IN  IF model_object.instances = 1 /\ model_object.volumes = 1
        THEN ItemForDelete("itObject", v.object_idx, -1)
        ELSE IF PartVolumes(v.object_idx, v.volume_idx) \subseteq pre.list
        THEN ItemForDelete("itVolume", v.object_idx, v.volume_idx)
        ELSE ItemForDelete("itInstance", v.object_idx, v.instance_idx)

\* the request the volume is promoted to, or the whole object in place of its part
Promoted(i) ==
    {Promotion(i)} \cup
        (IF Promotion(i).type = "itVolume"
         THEN {ItemForDelete("itObject", m_volumes[i].object_idx, 0)} ELSE {})

ModelSelected == {i \in pre.list : m_volumes[i].object_idx \in DOMAIN m_model}

C29_MixedPromotion ==
    call.op = "erase" /\ pre.type = "Mixed" =>
        /\ \A i \in ModelSelected : Cardinality(Promoted(i) \cap LastRequest) = 1
        /\ \A item \in LastRequest :
              item.obj_idx \in DOMAIN m_model => \E i \in ModelSelected : item \in Promoted(i)

(***************************************************************************)
(* C30.  erase maps a type that is not Mixed to the coarsest request:      *)
(* SingleFullObject to one request for the whole object,                   *)
(* MultipleFullObject to one request for each object of the selection,     *)
(* MultipleFullInstance to one request for each selected (object,          *)
(* instance) pair, SingleFullInstance to one request for the instance, the *)
(* volume and modifier types to one request for each selected (object,     *)
(* part).                                                                  *)
(***************************************************************************)
PartTypes == {"SingleVolume", "MultipleVolume", "SingleModifier", "MultipleModifier"}

SelectedParts == {<<m_volumes[i].object_idx, m_volumes[i].volume_idx>> : i \in m_list}

C30_EraseOfTheOtherTypes ==
    call.op = "erase" =>
        /\ pre.type = "SingleFullObject" =>
              \E o \in TouchedObjects :
                  /\ TouchedObjects = {o}
                  /\ LastRequest = {ItemForDelete("itObject", o, 0)}
        /\ pre.type = "MultipleFullObject" =>
              LastRequest = {ItemForDelete("itObject", o, 0) : o \in TouchedObjects}
        /\ pre.type = "MultipleFullInstance" =>
              LastRequest = {ItemForDelete("itInstance", pair[1], pair[2]) : pair \in SelectedPairs}
        /\ pre.type = "SingleFullInstance" =>
              \E pair \in SelectedPairs :
                  /\ SelectedPairs = {pair}
                  /\ LastRequest = {ItemForDelete("itInstance", pair[1], pair[2])}
        /\ pre.type \in PartTypes =>
              LastRequest = {ItemForDelete("itVolume", part[1], part[2]) : part \in SelectedParts}

\* two of the instances of an object, and not all of them, were erased
C30_Witness ==
    /\ call.op = "erase" /\ pre.type = "MultipleFullInstance"
    /\ Cardinality(LastRequest) = 2
    /\ \A item \in LastRequest : item.type = "itInstance"

(***************************************************************************)
(* C31.  The box get_bounding_box returns, after any sequence of mutators  *)
(* of the selection and transform operations, is the union of the boxes    *)
(* of the volumes that are selected now, as they are transformed now: it   *)
(* is never a box computed before the latest of them.                      *)
(***************************************************************************)
BoxOfTheSelection == MergeAll([transformation |-> transformation], EmptyBox, m_list)

C31_BoundingBoxIsFresh ==
    call.op = "get_bounding_box" => m_bounding_box = BoxOfTheSelection

\* a box had been computed, the selection was changed or transformed, and the box read
\* after that is another
C31_Witness ==
    /\ call.op = "get_bounding_box"
    /\ pre.bounding_box.defined /\ pre.dirty
    /\ m_bounding_box.defined
    /\ m_bounding_box # pre.bounding_box

(***************************************************************************)
(* C32.  After flattening_rotate, in Instance mode and in Volume mode,     *)
(* every unselected volume of an object of the selection has the instance  *)
(* rotation, Z included, of the selected volume of that object.            *)
(***************************************************************************)
C32_FlatteningSynchronizesFully ==
    call.op = "flattening_rotate" =>
        \A i \in m_list :
            m_volumes[i].object_idx < SentinelObjectIdx =>
                \A j \in Siblings(i) \ m_list :
                    transformation[j].instance.rotation = transformation[i].instance.rotation

(***************************************************************************)
(* C33.  After volumes_changed(map), in Volume mode as in Instance mode,   *)
(* every index of the selected set is an index of the new list and the     *)
(* volume at that index has its selected flag set.                         *)
(***************************************************************************)
C33_RemappedAreListedAndFlagged ==
    call.op = "volumes_changed" =>
        /\ m_list \subseteq DOMAIN m_volumes
        /\ \A i \in m_list : selected[i]

\* a selected volume moved to another index of the new list, in Volume mode
C33_Witness ==
    /\ call.op = "volumes_changed" /\ pre.mode = "Volume"
    /\ \E i \in pre.list : call.map[i] # Removed /\ call.map[i] # i /\ call.map[i] \in m_list

\* a volume of a selected instance was generated by the reload and is selected, in
\* Instance mode
C33_WitnessInstance ==
    /\ call.op = "volumes_changed" /\ pre.mode = "Instance"
    /\ m_list \ Remapped # {}

(***************************************************************************)
(* C34.  Where the instances of an object carry auxiliary volumes besides  *)
(* the parts of the model, the selection of every volume of the object is  *)
(* of type SingleFullObject, and the selection of every volume of one of   *)
(* its several instances is of type SingleFullInstance.                    *)
(***************************************************************************)
HasAuxiliary(object_idx) == \E i \in ObjectVolumesOf(object_idx) : m_volumes[i].volume_idx < 0

C34_FullWithAuxiliaries ==
    m_valid =>
        \A o \in DOMAIN m_model :
            HasAuxiliary(o) =>
                /\ m_list = ObjectVolumesOf(o) => m_type = "SingleFullObject"
                /\ \A k \in 0..(m_model[o].instances - 1) :
                      m_model[o].instances > 1 /\ m_list = InstanceVolumes(o, k)
                          => m_type = "SingleFullInstance"

(***************************************************************************)
(* C35.  When the selection is a single full instance of an object of the  *)
(* model, after scale or mirror in Instance mode every volume of every     *)
(* other instance of the object has the instance scaling factor and the    *)
(* instance mirror of the selected instance.                               *)
(***************************************************************************)
C35_FullInstanceScaleAndMirrorSpread ==
    /\ call.op \in {"scale", "mirror"}
    /\ pre.type = "SingleFullInstance" /\ pre.mode = "Instance"
    => \A i \in m_list :
           m_volumes[i].object_idx < SentinelObjectIdx =>
               \A j \in Siblings(i) \ InstanceOf(i) :
                   /\ transformation[j].instance.scaling_factor = transformation[i].instance.scaling_factor
                   /\ transformation[j].instance.mirror = transformation[i].instance.mirror

(***************************************************************************)
(* C36.  translate(d, local) computes the offsets from the snapshot of the *)
(* drag start: in a drag, the selected volumes are after translate(d)      *)
(* where translate(d) alone, called right at the drag start, puts them,    *)
(* whatever was translated in the drag before; and translate of the zero   *)
(* vector puts every selected volume back to its offsets of the drag       *)
(* start.                                                                  *)
(***************************************************************************)
\* the selection as start_dragging left it: every volume where the snapshot has it
DragStart == [pre EXCEPT !.transformation = pre.volumes_data]

C36_TranslateFromTheSnapshot ==
    call.op = "translate" /\ Captured =>
        \A i \in m_list :
            /\ transformation[i] =
                  translate(DragStart, call.displacement, call.local).transformation[i]
            /\ call.displacement = Zero3 =>
                  /\ transformation[i].instance.offset = m_cache_volumes_data[i].instance.offset
                  /\ transformation[i].volume.offset = m_cache_volumes_data[i].volume.offset

\* the zero vector was translated by after a translate that had moved a selected volume
C36_Witness ==
    /\ call.op = "translate" /\ Captured
    /\ call.displacement = Zero3
    /\ \E i \in m_list :
          /\ pre.transformation[i] # m_cache_volumes_data[i]
          /\ transformation[i] = m_cache_volumes_data[i]

(***************************************************************************)
(* C37.  After every mutator of the selection, a type of SingleFullObject, *)
(* SingleFullInstance, MultipleFullInstance or MultipleFullObject goes     *)
(* with the Instance mode, also when the mutator was add_volume or the add *)
(* of a modifier.                                                          *)
(***************************************************************************)
FullTypes == {"SingleFullObject", "SingleFullInstance", "MultipleFullInstance", "MultipleFullObject"}

C37_FullTypesAreInInstanceMode ==
    call # NoCall /\ m_type \in FullTypes => m_mode = "Instance"

\* add_volume, which sets the Volume mode, made a selection in the Volume mode a full one
C37_Witness ==
    /\ call.op = "add_volume"
    /\ pre.mode = "Volume"
    /\ m_type \in FullTypes
    /\ m_mode = "Instance"

(***************************************************************************)
(* C38.  After any sequence of add and remove from the empty selection,    *)
(* whenever the mode is Instance the selected set is closed under          *)
(* (object, instance): with a volume it holds every volume of the scene of *)
(* the same object and instance.                                           *)
(***************************************************************************)
C38_InstanceModeSelectsWholeInstances ==
    m_mode = "Instance" => \A i \in m_list : InstanceOf(i) \subseteq m_list

(***************************************************************************)
(* C39.  translate(object_idx, displacement) leaves the instance offset of *)
(* every volume of another object than object_idx as it was, and changes   *)
(* the instance offset of any volume by one displacement at most.          *)
(***************************************************************************)
C39_TranslateOfTheObjectAlone ==
    call.op = "translate_object" =>
        \A i \in DOMAIN m_volumes :
            /\ m_volumes[i].object_idx # call.object_idx =>
                  transformation[i].instance.offset = pre.transformation[i].instance.offset
            /\ transformation[i].instance.offset \in
                  {pre.transformation[i].instance.offset,
                   VAdd(pre.transformation[i].instance.offset, call.displacement)}

====
